---- MODULE Spec2Model ----
(***************************************************************************)
(* Model of the metric functions of franchisee_analytics_app.py.           *)
(*                                                                         *)
(* Money is counted in hundredths (pence), so every amount is an integer.  *)
(* A quotient the code computes in floating point is kept here as an exact *)
(* fraction [n, d] in lowest terms with d > 0 (float rounding is not       *)
(* modelled); every division of the code is guarded against a zero         *)
(* divisor.  A timestamp is a number of ticks, TicksPerDay to the day.     *)
(* A transaction table is a sequence of rows plus one flag per optional    *)
(* column; a marketing table read from CSV is addressed by column names.   *)
(***************************************************************************)
EXTENDS Integers, Sequences, FiniteSets, TLC

VARIABLES
    pc,                 \* "start" before the call, "done" after it returned, "raised" after an exception
    transaction_df,     \* the transaction table handed to the function under examination
    marketing_df,       \* the marketing table handed to the function under examination
    args,               \* the scalar arguments of the call
    business_metrics,   \* result of calculate_business_metrics
    marketing_metrics,  \* result of calculate_marketing_metrics
    benchmark_status,   \* result of get_benchmark_status
    promo_results,      \* result of analyze_promotion_performance
    rendered,           \* what the caller of analyze_promotion_performance put on the page
    customer_analysis,  \* the per-customer table of the customer value section
    promotion_analysis, \* result of calculate_promotion_analysis
    cac_analysis,       \* the list built by the CAC loop
    cac_summary,        \* the averages shown above the CAC table
    display_cac,                \* the CAC table as formatted for display
    uploaded_transaction_files, \* the files in the transaction uploader
    uploaded_marketing_files,   \* the files in the marketing uploader
    transaction_file_info,      \* the loading status of each transaction file
    marketing_file_info,        \* the loading status of each marketing file
    warnings,                   \* the st.warning messages of the run
    page,                       \* which screen the run ended on
    earlier_uploads             \* the file sets of the runs before this one, oldest first

vars == <<pc, transaction_df, marketing_df, args, business_metrics, marketing_metrics,
          benchmark_status, promo_results, rendered, customer_analysis, promotion_analysis,
          cac_analysis, cac_summary, display_cac, uploaded_transaction_files,
          uploaded_marketing_files, transaction_file_info, marketing_file_info, warnings,
          page, earlier_uploads>>

----------------------------------------------------------------------------
(* Bounds of the input domains.                                            *)

MaxRows == 2          \* rows of a transaction table (business metrics)
MaxAmount == 2        \* largest amount of a row
NegAmount == 1        \* amounts go down to -NegAmount (refunds are not filtered by the loader)
NumCustomers == 1     \* customers 1..NumCustomers; 0 stands for a missing (NaN) 'Sold To'
MaxMktRows == 2       \* rows of a marketing table
MaxSpend == 2         \* largest spend amount of a marketing row
NegSpend == 1         \* spend amounts go down to -NegSpend
MaxRevenue == 3       \* largest total_revenue handed to calculate_marketing_metrics
NegRevenue == 2       \* total_revenue goes down to -NegRevenue
MaxValue == 3         \* benchmark values and thresholds range over -MaxValue..MaxValue
MaxPromoRows == 3     \* rows of the table handed to analyze_promotion_performance
MaxSegRows == 2       \* rows of the table whose customers are segmented
MaxCacRows == 2       \* rows of the transaction table of the CAC analysis
MaxPeriods == 2       \* campaign windows of the CAC analysis
MaxCohortRows == 5    \* rows of the transaction table of the two-window CAC scenario
MaxProcessRows == 1   \* rows of the table handed to process_marketing_data
MaxFiles == 2         \* files in the transaction uploader
MaxMktFiles == 1      \* files in the marketing uploader
MaxEarlierRuns == 1   \* runs of the script before the one examined
MaxSessionFiles == 1  \* files in the transaction uploader when the script is run again
MaxWindowRows == 2    \* rows of the table of the comparison-window scenario
MaxTreatmentRows == 2 \* rows of the table of the treatment-window scenario
MaxCampaignRows == 2  \* rows of the marketing table handed to calculate_promotion_analysis
TicksPerDay == 2      \* resolution of the time of day: a timestamp is a number of ticks

----------------------------------------------------------------------------
(* Arithmetic.                                                             *)

Abs(x) == IF x < 0 THEN -x ELSE x

RECURSIVE GCD(_, _)
GCD(a, b) == IF b = 0 THEN a ELSE GCD(b, a % b)

\* The fraction n/d (d # 0) in lowest terms with a positive denominator.
Rat(n, d) ==
    LET g == GCD(Abs(n), Abs(d))
        s == IF d < 0 THEN -1 ELSE 1
    IN  [n |-> (s * n) \div g, d |-> (s * d) \div g]

Zero == Rat(0, 1)
\* The float a division by zero leaves behind (numpy does not raise): equal to no fraction.
NaN == [n |-> 0, d |-> 0]
RInt(k) == Rat(k, 1)
RAdd(r, s) == Rat(r.n * s.d + s.n * r.d, r.d * s.d)
RSub(r, s) == Rat(r.n * s.d - s.n * r.d, r.d * s.d)
RMul(r, s) == Rat(r.n * s.n, r.d * s.d)
RDiv(r, s) == Rat(r.n * s.d, r.d * s.n)
RLe(r, s) == r.n * s.d <= s.n * r.d
RLt(r, s) == r.n * s.d < s.n * r.d

RECURSIVE SumSeq(_)
SumSeq(s) == IF s = <<>> THEN 0 ELSE Head(s) + SumSeq(Tail(s))

\* Midnight of day n as a timestamp, and pd.Timedelta(days=n).
Days(n) == n * TicksPerDay

\* The days of a difference of timestamps, a started day counted as a whole one.
TimedeltaDays_RoundUp(t) == (t + TicksPerDay - 1) \div TicksPerDay

\* Timedelta.days: the whole days of a difference of timestamps, rounded down.
TimedeltaDays(t) == t \div TicksPerDay

\* Seq of at most n elements of S.
SeqUpTo(S, n) == UNION {[1..k -> S] : k \in 0..n}

\* df[col] as a sequence.
Column(rows, col) == [i \in DOMAIN rows |-> rows[i][col]]

\* Series.nunique(): the number of distinct values, missing ones (0) left out.
NUnique(rows, col) == Cardinality({rows[i][col] : i \in DOMAIN rows} \ {0})

----------------------------------------------------------------------------
(* Tables.                                                                 *)

Categories == {"MEMBERSHIP", "CREDIT_PACK", "OTHER"}
Items == {"A", "B"}

\* A transaction row: 'Date', 'Amount Inc Tax', 'Category', 'Sold To', 'Item', 'Quantity Sold'.
TxRow(date, amount, category, soldTo, item, qty) ==
    [Date |-> date, Amount |-> amount, Category |-> category,
     SoldTo |-> soldTo, Item |-> item, Qty |-> qty]

TxTable(rows, hasSoldTo, hasQty) ==
    [rows |-> rows, hasSoldTo |-> hasSoldTo, hasQty |-> hasQty]

\* A marketing table: its rows and whether the column 'Amount' exists.
MktTable(rows, hasAmount) == [rows |-> rows, hasAmount |-> hasAmount]

NoTable == TxTable(<<>>, FALSE, FALSE)
NoMkt == MktTable(<<>>, FALSE)
NotCalled == <<>>

----------------------------------------------------------------------------
(* calculate_business_metrics                                              *)

\* The same with the guard of revenue_per_customer left out: 0/0 is NaN.
calculate_business_metrics_Unguarded(df) ==
    LET total_revenue == SumSeq(Column(df.rows, "Amount"))
        total_transactions == Len(df.rows)
        unique_customers == IF df.hasSoldTo THEN NUnique(df.rows, "SoldTo") ELSE 0
        IsM(r) == r.Category = "MEMBERSHIP"
        IsP(r) == r.Category = "CREDIT_PACK"
        membership_revenue == SumSeq(Column(SelectSeq(df.rows, IsM), "Amount"))
        payg_revenue == SumSeq(Column(SelectSeq(df.rows, IsP), "Amount"))
    IN  [total_revenue |-> total_revenue,
         total_transactions |-> total_transactions,
         unique_customers |-> unique_customers,
         membership_revenue |-> membership_revenue,
         payg_revenue |-> payg_revenue,
         membership_pct |-> IF total_revenue > 0 THEN Rat(membership_revenue * 100, total_revenue) ELSE Zero,
         payg_pct |-> IF total_revenue > 0 THEN Rat(payg_revenue * 100, total_revenue) ELSE Zero,
         avg_transaction |-> IF total_transactions > 0 THEN Rat(total_revenue, total_transactions) ELSE Zero,
         revenue_per_customer |-> IF unique_customers > 0 THEN Rat(total_revenue, unique_customers) ELSE NaN]

calculate_business_metrics(df) ==
    LET total_revenue == SumSeq(Column(df.rows, "Amount"))
        total_transactions == Len(df.rows)
        unique_customers == IF df.hasSoldTo THEN NUnique(df.rows, "SoldTo") ELSE 0
        IsM(r) == r.Category = "MEMBERSHIP"
        IsP(r) == r.Category = "CREDIT_PACK"
        membership_revenue == SumSeq(Column(SelectSeq(df.rows, IsM), "Amount"))
        payg_revenue == SumSeq(Column(SelectSeq(df.rows, IsP), "Amount"))
    IN  [total_revenue |-> total_revenue,
         total_transactions |-> total_transactions,
         unique_customers |-> unique_customers,
         membership_revenue |-> membership_revenue,
         payg_revenue |-> payg_revenue,
         membership_pct |-> IF total_revenue > 0 THEN Rat(membership_revenue * 100, total_revenue) ELSE Zero,
         payg_pct |-> IF total_revenue > 0 THEN Rat(payg_revenue * 100, total_revenue) ELSE Zero,
         avg_transaction |-> IF total_transactions > 0 THEN Rat(total_revenue, total_transactions) ELSE Zero,
         revenue_per_customer |-> IF unique_customers > 0 THEN Rat(total_revenue, unique_customers) ELSE Zero]

BMRows ==
    {TxRow(Days(1), a, c, s, "A", 1) :
        a \in (0 - NegAmount)..MaxAmount, c \in Categories, s \in 0..NumCustomers}

InitBM ==
    /\ pc = "start"
    /\ \E rows \in SeqUpTo(BMRows, MaxRows), hasSoldTo \in BOOLEAN :
           transaction_df = TxTable(rows, hasSoldTo, TRUE)
    /\ marketing_df = NoMkt
    /\ args = NotCalled
    /\ business_metrics = NotCalled
    /\ marketing_metrics = NotCalled
    /\ benchmark_status = NotCalled
    /\ promo_results = NotCalled
    /\ rendered = NotCalled
    /\ customer_analysis = NotCalled
    /\ promotion_analysis = NotCalled
    /\ cac_analysis = NotCalled
    /\ cac_summary = NotCalled
    /\ display_cac = NotCalled
    /\ uploaded_transaction_files = NotCalled
    /\ uploaded_marketing_files = NotCalled
    /\ transaction_file_info = NotCalled
    /\ marketing_file_info = NotCalled
    /\ warnings = NotCalled
    /\ page = NotCalled
    /\ earlier_uploads = NotCalled

CalculateBusinessMetrics ==
    /\ pc = "start"
    /\ business_metrics' = calculate_business_metrics(transaction_df)
    /\ pc' = "done"
    /\ UNCHANGED <<transaction_df, marketing_df, args, marketing_metrics, benchmark_status,
                   promo_results, rendered, customer_analysis,
                   promotion_analysis, cac_analysis, cac_summary,
                   display_cac, uploaded_transaction_files, uploaded_marketing_files,
                   transaction_file_info, marketing_file_info, warnings, page,
                   earlier_uploads>>

NextBM == CalculateBusinessMetrics

SpecBM == InitBM /\ [][NextBM]_vars

\* C1: for every non-empty transaction table, membership_pct and payg_pct lie in
\* [0, 100] and their sum is at most 100.
C1_PctWithinBounds ==
    (pc = "done" /\ Len(transaction_df.rows) > 0) =>
        /\ RLe(Zero, business_metrics.membership_pct)
        /\ RLe(business_metrics.membership_pct, RInt(100))
        /\ RLe(Zero, business_metrics.payg_pct)
        /\ RLe(business_metrics.payg_pct, RInt(100))
        /\ RLe(RAdd(business_metrics.membership_pct, business_metrics.payg_pct), RInt(100))

\* C2: whenever the table's total revenue is 0, the call returns and avg_transaction,
\* revenue_per_customer, membership_pct and payg_pct are all 0, also when the
\* customer column is absent.
C2_ZeroRevenueAllZero ==
    (pc # "start" /\ SumSeq(Column(transaction_df.rows, "Amount")) = 0) =>
        /\ pc = "done"
        /\ business_metrics.avg_transaction = Zero
        /\ business_metrics.revenue_per_customer = Zero
        /\ business_metrics.membership_pct = Zero
        /\ business_metrics.payg_pct = Zero

\* A table with rows that cancel out (a sale and its refund), with and without 'Sold To'.
C2_Witness ==
    /\ pc = "done"
    /\ Len(transaction_df.rows) = 2
    /\ transaction_df.rows[1].Amount > 0
    /\ business_metrics.total_revenue = 0
    /\ ~transaction_df.hasSoldTo
    /\ business_metrics.unique_customers = 0

----------------------------------------------------------------------------
(* calculate_marketing_metrics                                             *)

\* A marketing row: 'Date', 'Amount', 'Reporting starts', 'Reporting ends', 'Campaign'.
MktRow(date, amount, starts, ends, campaign) ==
    [Date |-> date, Amount |-> amount, ReportingStarts |-> starts,
     ReportingEnds |-> ends, Campaign |-> campaign]

\* The zero result with profit_after_ads zeroed as well.
ZeroResult_AllZero(total_revenue) ==
    [total_spend |-> 0, roi |-> Zero, cost_per_revenue |-> Zero,
     profit_after_ads |-> 0]

\* Lines 177-182 (and the except branch, lines 196-201).
ZeroResult(total_revenue) ==
    [total_spend |-> 0, roi |-> Zero, cost_per_revenue |-> Zero,
     profit_after_ads |-> total_revenue]

\* The body of the try block with roi inverted.
MarketingRatios_Inverted(total_spend, total_revenue) ==
    [total_spend |-> total_spend,
     roi |-> IF total_spend > 0 THEN Rat(total_spend, total_revenue) ELSE Zero,
     cost_per_revenue |-> IF total_revenue > 0 THEN Rat(total_spend, total_revenue) ELSE Zero,
     profit_after_ads |-> total_revenue - total_spend]

\* The body of the try block.  The column is numeric, so nothing in it raises and
\* the except branch (which returns ZeroResult) is never entered.
MarketingRatios(total_spend, total_revenue) ==
    [total_spend |-> total_spend,
     roi |-> IF total_spend > 0 THEN Rat(total_revenue, total_spend) ELSE Zero,
     cost_per_revenue |-> IF total_revenue > 0 THEN Rat(total_spend, total_revenue) ELSE Zero,
     profit_after_ads |-> total_revenue - total_spend]

calculate_marketing_metrics(df, total_revenue) ==
    IF Len(df.rows) = 0 \/ ~df.hasAmount
    THEN ZeroResult(total_revenue)
    ELSE MarketingRatios(SumSeq(Column(df.rows, "Amount")), total_revenue)

MMRows == {MktRow(Days(1), a, 0, 0, "General") : a \in (0 - NegSpend)..MaxSpend}

InitMM ==
    /\ pc = "start"
    /\ transaction_df = NoTable
    /\ \E rows \in SeqUpTo(MMRows, MaxMktRows), hasAmount \in BOOLEAN :
           marketing_df = MktTable(rows, hasAmount)
    /\ \E total_revenue \in (0 - NegRevenue)..MaxRevenue :
           args = [total_revenue |-> total_revenue]
    /\ business_metrics = NotCalled
    /\ marketing_metrics = NotCalled
    /\ benchmark_status = NotCalled
    /\ promo_results = NotCalled
    /\ rendered = NotCalled
    /\ customer_analysis = NotCalled
    /\ promotion_analysis = NotCalled
    /\ cac_analysis = NotCalled
    /\ cac_summary = NotCalled
    /\ display_cac = NotCalled
    /\ uploaded_transaction_files = NotCalled
    /\ uploaded_marketing_files = NotCalled
    /\ transaction_file_info = NotCalled
    /\ marketing_file_info = NotCalled
    /\ warnings = NotCalled
    /\ page = NotCalled
    /\ earlier_uploads = NotCalled

CalculateMarketingMetrics ==
    /\ pc = "start"
    /\ marketing_metrics' = calculate_marketing_metrics(marketing_df, args.total_revenue)
    /\ pc' = "done"
    /\ UNCHANGED <<transaction_df, marketing_df, args, business_metrics, benchmark_status,
                   promo_results, rendered, customer_analysis,
                   promotion_analysis, cac_analysis, cac_summary,
                   display_cac, uploaded_transaction_files, uploaded_marketing_files,
                   transaction_file_info, marketing_file_info, warnings, page,
                   earlier_uploads>>

NextMM == CalculateMarketingMetrics

SpecMM == InitMM /\ [][NextMM]_vars

\* C3: on an empty marketing table, or one without an 'Amount' column, the result is
\* total_spend = 0, roi = 0, cost_per_revenue = 0 and profit_after_ads = total_revenue.
C3_ZeroResult ==
    (pc = "done" /\ (Len(marketing_df.rows) = 0 \/ ~marketing_df.hasAmount)) =>
        /\ marketing_metrics.total_spend = 0
        /\ marketing_metrics.roi = Zero
        /\ marketing_metrics.cost_per_revenue = Zero
        /\ marketing_metrics.profit_after_ads = args.total_revenue

\* Rows with spend but no 'Amount' column, and a revenue that is not 0.
C3_Witness ==
    /\ pc = "done"
    /\ Len(marketing_df.rows) > 0
    /\ ~marketing_df.hasAmount
    /\ args.total_revenue < 0
    /\ marketing_metrics.profit_after_ads = args.total_revenue

\* r is the quotient a / b.
IsQuotient(r, a, b) == r.d > 0 /\ r.n * b = a * r.d

\* C4 as stated: roi = total_revenue / total_spend unless total_spend is 0, and
\* cost_per_revenue = total_spend / total_revenue unless total_revenue is 0.
C4_AsStated ==
    (pc # "start" /\ Len(marketing_df.rows) > 0 /\ marketing_df.hasAmount) =>
        LET spend == SumSeq(Column(marketing_df.rows, "Amount"))
            rev == args.total_revenue
        IN  /\ pc = "done"
            /\ marketing_metrics.total_spend = spend
            /\ IF spend = 0 THEN marketing_metrics.roi = Zero
                            ELSE IsQuotient(marketing_metrics.roi, rev, spend)
            /\ IF rev = 0 THEN marketing_metrics.cost_per_revenue = Zero
                          ELSE IsQuotient(marketing_metrics.cost_per_revenue, spend, rev)
            /\ marketing_metrics.profit_after_ads = rev - spend

\* C4 (amended): for a non-empty marketing table with an 'Amount' column the call
\* returns total_spend = sum of the column, roi = total_revenue / total_spend when
\* total_spend > 0 and 0 otherwise, cost_per_revenue = total_spend / total_revenue
\* when total_revenue > 0 and 0 otherwise, and profit_after_ads = total_revenue - total_spend.
C4_MarketingRatios ==
    (pc # "start" /\ Len(marketing_df.rows) > 0 /\ marketing_df.hasAmount) =>
        LET spend == SumSeq(Column(marketing_df.rows, "Amount"))
            rev == args.total_revenue
        IN  /\ pc = "done"
            /\ marketing_metrics.total_spend = spend
            /\ IF spend > 0 THEN IsQuotient(marketing_metrics.roi, rev, spend)
                            ELSE marketing_metrics.roi = Zero
            /\ IF rev > 0 THEN IsQuotient(marketing_metrics.cost_per_revenue, spend, rev)
                          ELSE marketing_metrics.cost_per_revenue = Zero
            /\ marketing_metrics.profit_after_ads = rev - spend

\* A table whose spend and revenue are both positive and different, so both quotients are taken.
C4_Witness ==
    /\ pc = "done"
    /\ Len(marketing_df.rows) = 2
    /\ marketing_df.hasAmount
    /\ marketing_metrics.total_spend = 3
    /\ args.total_revenue = 2
    /\ marketing_metrics.roi = Rat(2, 3)

----------------------------------------------------------------------------
(* get_benchmark_status                                                    *)

\* The comparisons made strict.
get_benchmark_status_Strict(value, benchmarks) ==
    IF value > benchmarks.excellent THEN <<"green", "Excellent">>
    ELSE IF value > benchmarks.good THEN <<"yellow", "Good">>
    ELSE <<"red", "Needs Attention">>

get_benchmark_status(value, benchmarks) ==
    IF value >= benchmarks.excellent THEN <<"green", "Excellent">>
    ELSE IF value >= benchmarks.good THEN <<"yellow", "Good">>
    ELSE <<"red", "Needs Attention">>

Values == (0 - MaxValue)..MaxValue

InitBench ==
    /\ pc = "start"
    /\ transaction_df = NoTable
    /\ marketing_df = NoMkt
    /\ \E value \in Values, excellent \in Values, good \in Values :
           args = [value |-> value, benchmarks |-> [excellent |-> excellent, good |-> good]]
    /\ business_metrics = NotCalled
    /\ marketing_metrics = NotCalled
    /\ benchmark_status = NotCalled
    /\ promo_results = NotCalled
    /\ rendered = NotCalled
    /\ customer_analysis = NotCalled
    /\ promotion_analysis = NotCalled
    /\ cac_analysis = NotCalled
    /\ cac_summary = NotCalled
    /\ display_cac = NotCalled
    /\ uploaded_transaction_files = NotCalled
    /\ uploaded_marketing_files = NotCalled
    /\ transaction_file_info = NotCalled
    /\ marketing_file_info = NotCalled
    /\ warnings = NotCalled
    /\ page = NotCalled
    /\ earlier_uploads = NotCalled

GetBenchmarkStatus ==
    /\ pc = "start"
    /\ benchmark_status' = get_benchmark_status(args.value, args.benchmarks)
    /\ pc' = "done"
    /\ UNCHANGED <<transaction_df, marketing_df, args, business_metrics, marketing_metrics,
                   promo_results, rendered, customer_analysis,
                   promotion_analysis, cac_analysis, cac_summary,
                   display_cac, uploaded_transaction_files, uploaded_marketing_files,
                   transaction_file_info, marketing_file_info, warnings, page,
                   earlier_uploads>>

NextBench == GetBenchmarkStatus

SpecBench == InitBench /\ [][NextBench]_vars

\* C5: get_benchmark_status is defined for every value and pair of thresholds, and
\* returns Excellent iff value >= excellent, Good iff excellent > value >= good, and
\* Needs Attention iff value is below both; a value equal to a threshold gets its tier.
C5_BenchmarkTiers ==
    /\ pc = "start" => ENABLED GetBenchmarkStatus
    /\ pc = "done" =>
        LET v == args.value
            e == args.benchmarks.excellent
            g == args.benchmarks.good
            tier == benchmark_status[2]
        IN  /\ tier \in {"Excellent", "Good", "Needs Attention"}
            /\ tier = "Excellent" <=> v >= e
            /\ tier = "Good" <=> (v < e /\ v >= g)
            /\ tier = "Needs Attention" <=> (v < e /\ v < g)
            /\ v = e => tier = "Excellent"
            /\ (v = g /\ v < e) => tier = "Good"

\* A negative value sitting exactly on the 'good' threshold, below 'excellent'.
C5_Witness ==
    /\ pc = "done"
    /\ args.value < 0
    /\ args.value = args.benchmarks.good
    /\ args.value < args.benchmarks.excellent
    /\ benchmark_status[2] = "Good"

----------------------------------------------------------------------------
(* analyze_promotion_performance and its caller                            *)

\* The window with its last instant left out.
InWindow_EndExclusive(rows, lo, hi) ==
    LET Keep(r) == r.Date >= lo /\ r.Date < hi IN SelectSeq(rows, Keep)

\* df[(df['Date'] >= lo) & (df['Date'] <= hi)]
InWindow(rows, lo, hi) ==
    LET Keep(r) == r.Date >= lo /\ r.Date <= hi IN SelectSeq(rows, Keep)

ItemRows(rows, item) ==
    LET Keep(r) == r.Item = item IN SelectSeq(rows, Keep)

\* One row of product_performance: the group of one Item.
\* With a quantity column: sums and the distinct customers, Avg_Price over the
\* units with 0 replaced by 1.  Without: Units_Sold = Customers = 1, Avg_Price = Revenue.
ProductRow(item, rows, hasQty) ==
    LET g == ItemRows(rows, item)
        revenue == SumSeq(Column(g, "Amount"))
        units == SumSeq(Column(g, "Qty"))
    IN  IF hasQty
        THEN [Item |-> item, Revenue |-> revenue, Units_Sold |-> units,
              Customers |-> NUnique(g, "SoldTo"),
              Avg_Price |-> Rat(revenue, IF units = 0 THEN 1 ELSE units)]
        ELSE [Item |-> item, Revenue |-> revenue, Units_Sold |-> 1,
              Customers |-> 1, Avg_Price |-> RInt(revenue)]

\* groupby('Item')...sort_values('Revenue', ascending=False): every order of the
\* groups with Revenue descending (the sort is not stable, so ties may fall either way).
ProductPerformances(rows, hasQty) ==
    LET groups == {ProductRow(rows[i].Item, rows, hasQty) : i \in DOMAIN rows}
        n == Cardinality(groups)
    IN  {s \in [1..n -> groups] :
            /\ \A i, j \in 1..n : i # j => s[i] # s[j]
            /\ \A i, j \in 1..n : i < j => s[i].Revenue >= s[j].Revenue}

\* The lift without the factor 100 (a fraction instead of a percentage).
Lift_Fraction(promotion, comparison) ==
    IF comparison > 0 THEN Rat(promotion - comparison, comparison) ELSE Zero

\* ((promotion - comparison) / comparison * 100) if comparison > 0 else 0
Lift(promotion, comparison) ==
    IF comparison > 0 THEN Rat((promotion - comparison) * 100, comparison) ELSE Zero

\* The ratio taken the wrong way round: spend per unit of revenue.
PerSpend_Inverted(revenue, marketing_spend) ==
    IF marketing_spend > 0 /\ revenue # 0 THEN Rat(marketing_spend, revenue) ELSE Zero

\* (revenue / marketing_spend) if marketing_spend > 0 else 0
PerSpend(revenue, marketing_spend) ==
    IF marketing_spend > 0 THEN Rat(revenue, marketing_spend) ELSE Zero

\* The return value {} of line 309: a dict with no keys.
EmptyDict == <<>>

\* A zero-filled result in place of {}.
NoDataResult_ZeroFilled ==
    [promotion_revenue |-> 0, promotion_transactions |-> 0, promotion_customers |-> 0,
     comparison_revenue |-> 0, comparison_transactions |-> 0, comparison_customers |-> 0,
     revenue_lift |-> Zero, transaction_lift |-> Zero, customer_lift |-> Zero,
     roi |-> Zero, incremental_revenue |-> 0, incremental_roi |-> Zero,
     product_performance |-> <<>>, marketing_spend |-> 0]

NoDataResult == EmptyDict

\* The function, given the order product_performance came out in.  It is only
\* evaluated where the group-by does not raise (see AnalyzePromotionRaises).
analyze_promotion_performance(df, promotion_start, promotion_end, marketing_spend, product_performance) ==
    LET promotion_data == InWindow(df.rows, promotion_start, promotion_end)
        promotion_revenue == SumSeq(Column(promotion_data, "Amount"))
        promotion_transactions == Len(promotion_data)
        promotion_customers == IF df.hasSoldTo THEN NUnique(promotion_data, "SoldTo") ELSE 0
        period_duration == TimedeltaDays(promotion_end - promotion_start)
        comparison_start == promotion_start - Days(30)
        comparison_end == comparison_start + Days(period_duration)
        comparison_data == InWindow(df.rows, comparison_start, comparison_end)
        comparison_revenue ==
            IF Len(comparison_data) > 0 THEN SumSeq(Column(comparison_data, "Amount")) ELSE 0
        comparison_transactions == Len(comparison_data)
        comparison_customers ==
            IF Len(comparison_data) > 0 /\ df.hasSoldTo
            THEN NUnique(comparison_data, "SoldTo") ELSE 0
        incremental_revenue == promotion_revenue - comparison_revenue
    IN  IF Len(promotion_data) = 0
        THEN NoDataResult
        ELSE [promotion_revenue |-> promotion_revenue,
              promotion_transactions |-> promotion_transactions,
              promotion_customers |-> promotion_customers,
              comparison_revenue |-> comparison_revenue,
              comparison_transactions |-> comparison_transactions,
              comparison_customers |-> comparison_customers,
              revenue_lift |-> Lift(promotion_revenue, comparison_revenue),
              transaction_lift |-> Lift(promotion_transactions, comparison_transactions),
              customer_lift |-> Lift(promotion_customers, comparison_customers),
              roi |-> PerSpend(promotion_revenue, marketing_spend),
              incremental_revenue |-> incremental_revenue,
              incremental_roi |-> PerSpend(incremental_revenue, marketing_spend),
              product_performance |-> product_performance,
              marketing_spend |-> marketing_spend]

\* analysis_df of the caller: the whole table, or the rows of the selected item.
AnalysisDf(df, selected_product) ==
    IF selected_product # "All Products"
    THEN [df EXCEPT !.rows = ItemRows(df.rows, selected_product)]
    ELSE df

\* The rows of analysis_df inside the treatment window of the call.
PromotionData ==
    InWindow(AnalysisDf(transaction_df, args.selected_product).rows,
             args.promotion_start, args.promotion_end)

\* The group-by of line 318 names the column 'Sold To' whether or not it exists.
GroupByRaises(df) == df.hasQty /\ ~df.hasSoldTo

PromoDates == {Days(5), Days(35)}
PromoAmounts == {0 - 50, 50}
PromoCustomers == {1, 2}
PromoSpends == {0 - 50, 0, 50}
PromoWindows ==
    {<<Days(31), Days(40)>>, <<Days(1), Days(10)>>, <<Days(40), Days(31)>>,
     <<Days(1), Days(40)>>}
PromoProducts == {"All Products", "A"}

PromoRows ==
    {TxRow(d, a, "OTHER", c, i, 1) :
        d \in PromoDates, a \in PromoAmounts, c \in PromoCustomers, i \in Items}

\* Every result of the function depends on the rows as a multiset only (sums, counts,
\* distinct counts, group-bys), so the tables are enumerated in one order per multiset.
RowRank(r) ==
    ((r.Date * 10 + r.SoldTo) * 10 + (IF r.Item = "A" THEN 0 ELSE 1)) * 1000 + r.Amount + 500

Ranked(rows) == \A i, j \in DOMAIN rows : i < j => RowRank(rows[i]) <= RowRank(rows[j])

InitPromo ==
    /\ pc = "start"
    /\ \E rows \in SeqUpTo(PromoRows, MaxPromoRows), hasSoldTo \in BOOLEAN, hasQty \in BOOLEAN :
           /\ Ranked(rows)
           /\ transaction_df = TxTable(rows, hasSoldTo, hasQty)
    /\ marketing_df = NoMkt
    /\ \E w \in PromoWindows, spend \in PromoSpends, product \in PromoProducts :
           args = [promotion_start |-> w[1], promotion_end |-> w[2],
                   marketing_spend |-> spend, selected_product |-> product]
    /\ business_metrics = NotCalled
    /\ marketing_metrics = NotCalled
    /\ benchmark_status = NotCalled
    /\ promo_results = NotCalled
    /\ rendered = NotCalled
    /\ customer_analysis = NotCalled
    /\ promotion_analysis = NotCalled
    /\ cac_analysis = NotCalled
    /\ cac_summary = NotCalled
    /\ display_cac = NotCalled
    /\ uploaded_transaction_files = NotCalled
    /\ uploaded_marketing_files = NotCalled
    /\ transaction_file_info = NotCalled
    /\ marketing_file_info = NotCalled
    /\ warnings = NotCalled
    /\ page = NotCalled
    /\ earlier_uploads = NotCalled

\* Lines 917-929: the call, where it returns.
AnalyzePromotion ==
    /\ pc = "start"
    /\ Len(PromotionData) = 0 \/ ~GroupByRaises(transaction_df)
    /\ LET df == AnalysisDf(transaction_df, args.selected_product)
       IN  \E pp \in ProductPerformances(PromotionData, df.hasQty) :
               promo_results' = analyze_promotion_performance(
                   df, args.promotion_start, args.promotion_end, args.marketing_spend, pp)
    /\ pc' = "returned"
    /\ UNCHANGED <<transaction_df, marketing_df, args, business_metrics, marketing_metrics,
                   benchmark_status, rendered, customer_analysis,
                   promotion_analysis, cac_analysis, cac_summary,
                   display_cac, uploaded_transaction_files, uploaded_marketing_files,
                   transaction_file_info, marketing_file_info, warnings, page,
                   earlier_uploads>>

\* Lines 317-322: with rows in the window, a 'Quantity Sold' column and no
\* 'Sold To' column, the aggregation raises KeyError and nothing is returned.
AnalyzePromotionRaises ==
    /\ pc = "start"
    /\ Len(PromotionData) > 0
    /\ GroupByRaises(transaction_df)
    /\ pc' = "raised"
    /\ UNCHANGED <<transaction_df, marketing_df, args, business_metrics, marketing_metrics,
                   benchmark_status, promo_results, rendered, customer_analysis,
                   promotion_analysis, cac_analysis, cac_summary,
                   display_cac, uploaded_transaction_files, uploaded_marketing_files,
                   transaction_file_info, marketing_file_info, warnings, page,
                   earlier_uploads>>

\* Lines 931-963: `if promo_results:` puts the four campaign metrics on the page.
RenderPromotion ==
    /\ pc = "returned"
    /\ rendered' =
           IF DOMAIN promo_results # {}
           THEN [revenue |-> promo_results.promotion_revenue,
                 revenue_lift |-> promo_results.revenue_lift,
                 roi |-> promo_results.roi,
                 incremental_roi |-> promo_results.incremental_roi,
                 customer_lift |-> promo_results.customer_lift]
           ELSE <<>>
    /\ pc' = "done"
    /\ UNCHANGED <<transaction_df, marketing_df, args, business_metrics, marketing_metrics,
                   benchmark_status, promo_results, customer_analysis,
                   promotion_analysis, cac_analysis, cac_summary,
                   display_cac, uploaded_transaction_files, uploaded_marketing_files,
                   transaction_file_info, marketing_file_info, warnings, page,
                   earlier_uploads>>

NextPromo == AnalyzePromotion \/ AnalyzePromotionRaises \/ RenderPromotion

SpecPromo == InitPromo /\ [][NextPromo]_vars

Returned == pc \in {"returned", "done"}
HasMetrics == Returned /\ DOMAIN promo_results # {}
MetricFields ==
    {"promotion_revenue", "promotion_transactions", "promotion_customers",
     "comparison_revenue", "comparison_transactions", "comparison_customers",
     "revenue_lift", "transaction_lift", "customer_lift", "roi",
     "incremental_revenue", "incremental_roi", "product_performance", "marketing_spend"}

\* The lift is (promotion - comparison) / comparison * 100.
IsLift(lift, promotion, comparison) == IsQuotient(lift, (promotion - comparison) * 100, comparison)

\* C7 as stated: each lift follows the formula, and is 0 exactly when its comparison value is 0.
C7_AsStated ==
    HasMetrics =>
        LET r == promo_results
            Stated(lift, promotion, comparison) ==
                /\ comparison # 0 => IsLift(lift, promotion, comparison)
                /\ lift = Zero <=> comparison = 0
        IN  /\ Stated(r.revenue_lift, r.promotion_revenue, r.comparison_revenue)
            /\ Stated(r.transaction_lift, r.promotion_transactions, r.comparison_transactions)
            /\ Stated(r.customer_lift, r.promotion_customers, r.comparison_customers)

\* C7 (amended): each of revenue_lift, transaction_lift and customer_lift is
\* (promotion - comparison) / comparison * 100 when its comparison value is greater
\* than 0, and 0 when its comparison value is 0 or negative, in particular when the
\* comparison window selects no rows.
C7_Lifts ==
    HasMetrics =>
        LET r == promo_results
            Holds(lift, promotion, comparison) ==
                IF comparison > 0 THEN IsLift(lift, promotion, comparison) ELSE lift = Zero
        IN  /\ Holds(r.revenue_lift, r.promotion_revenue, r.comparison_revenue)
            /\ Holds(r.transaction_lift, r.promotion_transactions, r.comparison_transactions)
            /\ Holds(r.customer_lift, r.promotion_customers, r.comparison_customers)
            /\ r.comparison_transactions = 0 =>
                   /\ r.revenue_lift = Zero
                   /\ r.transaction_lift = Zero
                   /\ r.customer_lift = Zero

\* Two treatment rows of one customer against one comparison row: the three lifts
\* are 100 %, 100 % and 0 %.
C7_Witness ==
    /\ HasMetrics
    /\ promo_results.promotion_revenue = 100
    /\ promo_results.comparison_revenue = 50
    /\ promo_results.revenue_lift = RInt(100)
    /\ promo_results.transaction_lift = RInt(100)
    /\ promo_results.promotion_customers = 1
    /\ promo_results.comparison_customers = 1
    /\ promo_results.customer_lift = Zero

\* C8 as stated: roi = promotion_revenue / marketing_spend and incremental_roi =
\* incremental_revenue / marketing_spend, both 0 when marketing_spend is 0.
C8_AsStated ==
    HasMetrics =>
        LET r == promo_results
            spend == args.marketing_spend
        IN  /\ r.incremental_revenue = r.promotion_revenue - r.comparison_revenue
            /\ IF spend = 0 THEN r.roi = Zero /\ r.incremental_roi = Zero
               ELSE /\ IsQuotient(r.roi, r.promotion_revenue, spend)
                    /\ IsQuotient(r.incremental_roi, r.incremental_revenue, spend)

\* C8 (amended): incremental_revenue = promotion_revenue - comparison_revenue; roi =
\* promotion_revenue / marketing_spend and incremental_roi = incremental_revenue /
\* marketing_spend when marketing_spend is greater than 0, and both are 0 when
\* marketing_spend is 0 or negative; revenue 100 against 50 at spend 50 gives 2, 50 and 1.
C8_Roi ==
    HasMetrics =>
        LET r == promo_results
            spend == args.marketing_spend
        IN  /\ r.marketing_spend = spend
            /\ r.incremental_revenue = r.promotion_revenue - r.comparison_revenue
            /\ IF spend > 0
               THEN /\ IsQuotient(r.roi, r.promotion_revenue, spend)
                    /\ IsQuotient(r.incremental_roi, r.incremental_revenue, spend)
               ELSE r.roi = Zero /\ r.incremental_roi = Zero
            /\ (r.promotion_revenue = 100 /\ r.comparison_revenue = 50 /\ spend = 50) =>
                   /\ r.roi = RInt(2)
                   /\ r.incremental_revenue = 50
                   /\ r.incremental_roi = RInt(1)

\* The scenario of the claim: treatment revenue 100, comparison revenue 50, spend 50.
C8_Witness ==
    /\ HasMetrics
    /\ promo_results.promotion_revenue = 100
    /\ promo_results.comparison_revenue = 50
    /\ args.marketing_spend = 50
    /\ promo_results.roi = RInt(2)
    /\ promo_results.incremental_roi = RInt(1)

\* C9: the call returns the empty result exactly when the treatment window selects no
\* row; a result for a window with rows carries every metric field, so the two are
\* never equal; and for the empty result the caller renders no campaign metric.
C9_NoDataResult ==
    /\ Returned =>
        /\ Len(PromotionData) = 0 <=> DOMAIN promo_results = {}
        /\ Len(PromotionData) > 0 => DOMAIN promo_results = MetricFields
    /\ pc = "done" =>
        (Len(PromotionData) = 0 <=> rendered = <<>>)

\* A window that ends before it starts on a table that has rows, after rendering.
C9_Witness ==
    /\ pc = "done"
    /\ args.promotion_end < args.promotion_start
    /\ Len(transaction_df.rows) > 0
    /\ DOMAIN promo_results = {}
    /\ rendered = <<>>

----------------------------------------------------------------------------
(* Customer value section: the per-customer table, the segments, the CAC   *)
(* loop and its averages                                                   *)

\* A float that is infinite: float('inf').
Inf == [n |-> 1, d |-> 0]

\* DataFrame.round(2) on an amount in hundredths: the nearest integer, halves to even.
RoundHalfEven(r) ==
    LET q == r.n \div r.d
        rem == r.n - q * r.d
    IN  IF 2 * rem < r.d THEN q
        ELSE IF 2 * rem > r.d THEN q + 1
        ELSE IF q % 2 = 0 THEN q ELSE q + 1

MinOf(S) == CHOOSE x \in S : \A y \in S : x <= y
MaxOf(S) == CHOOSE x \in S : \A y \in S : x >= y

\* The elements of a set of integers in ascending order (group keys come out sorted).
RECURSIVE Ascending(_)
Ascending(S) == IF S = {} THEN <<>> ELSE <<MinOf(S)>> \o Ascending(S \ {MinOf(S)})

RECURSIVE RSumSeq(_)
RSumSeq(s) == IF s = <<>> THEN Zero ELSE RAdd(Head(s), RSumSeq(Tail(s)))

\* Series.mean() of integers and of fractions; NaN on an empty series.
Mean(s) == IF Len(s) = 0 THEN NaN ELSE Rat(SumSeq(s), Len(s))
RMean(s) == IF Len(s) = 0 THEN NaN ELSE RDiv(RSumSeq(s), RInt(Len(s)))

\* The bin edges 0, 25, 75, 150 (pounds) in hundredths, and inf; the labels.
bins == <<0, 2500, 7500, 15000>>
labels == <<"Low Value", "Medium Value", "High Value", "VIP">>

\* pd.cut(x, bins, labels) with its default right=True, include_lowest=False:
\* label i for bins[i] < x <= bins[i+1], the last bin reaching to inf, and NaN
\* (no label) for a value in no bin.
pd_cut(x) ==
    IF x <= bins[1] THEN "NaN"
    ELSE LET i == MaxOf({k \in DOMAIN bins : bins[k] < x}) IN labels[i]

\* Days per month of line 558, as hundredths.
DaysPerMonth == Rat(3044, 100)

\* One row of customer_analysis: the group of one 'Sold To' value.
CustomerRow(c, rows) ==
    LET IsC(r) == r.SoldTo = c
        g == SelectSeq(rows, IsC)
        amounts == Column(g, "Amount")
        dates == {g[i].Date : i \in DOMAIN g}
        ltv == SumSeq(amounts)
        tenure == TimedeltaDays(MaxOf(dates) - MinOf(dates))
    IN  [SoldTo |-> c,
         LTV |-> ltv,
         Transactions |-> Len(g),
         Avg_Spend |-> RoundHalfEven(Mean(amounts)),
         First_Purchase |-> MinOf(dates),
         Last_Purchase |-> MaxOf(dates),
         Total_Units |-> SumSeq(Column(g, "Qty")),
         Tenure_Days |-> tenure,
         Purchase_Frequency |->
             RDiv(RInt(Len(g)), RDiv(RInt(IF tenure = 0 THEN 1 ELSE tenure), DaysPerMonth)),
         Customer_Segment |-> pd_cut(ltv)]

\* Lines 547-563: one row per customer, in the order of the group keys; rows with a
\* missing 'Sold To' belong to no group.
CustomerAnalysis(df) ==
    LET keys == Ascending({df.rows[i].SoldTo : i \in DOMAIN df.rows} \ {0})
    IN  [k \in DOMAIN keys |-> CustomerRow(keys[k], df.rows)]

\* A campaign window taken from a marketing row with reporting dates, and one made
\* up for a calendar month (it has no start_date and no end_date).
ExplicitPeriod(start_date, end_date, campaign_name, spend) ==
    [start_date |-> start_date, end_date |-> end_date,
     campaign_name |-> campaign_name, spend |-> spend]
MonthPeriod(period, spend, campaign_name) ==
    [period |-> period, spend |-> spend, campaign_name |-> campaign_name]

IsExplicit(period) == {"start_date", "end_date"} \subseteq DOMAIN period

\* The customers of a window, with the last day of the window left out.
NewCustomersInPeriod_EndExclusive(customers, period) ==
    LET InPeriod(c) ==
            c.First_Purchase >= period.start_date /\ c.First_Purchase < period.end_date
    IN  SelectSeq(customers, InPeriod)

\* Lines 621-624: the customers whose first purchase falls in the window, both ends
\* included.
NewCustomersInPeriod(customers, period) ==
    LET InPeriod(c) ==
            c.First_Purchase >= period.start_date /\ c.First_Purchase <= period.end_date
    IN  SelectSeq(customers, InPeriod)

\* The payback with 0 in the place of float('inf').
PaybackMonths_Zero(cac, monthly_value) ==
    IF RLt(Zero, monthly_value) THEN RDiv(cac, monthly_value) ELSE Zero

\* Line 640: cac / monthly_value if monthly_value > 0 else float('inf').
PaybackMonths(cac, monthly_value) ==
    IF RLt(Zero, monthly_value) THEN RDiv(cac, monthly_value) ELSE Inf

\* Lines 618-651: the entry of one window with start and end dates.  'Period' is a
\* display label built from the two dates; it is kept as the pair and never read back.
CacEntry(period, customers) ==
    LET new_customers_in_period == NewCustomersInPeriod(customers, period)
        campaign_spend == period.spend
        new_customer_count == Len(new_customers_in_period)
        cac == IF new_customer_count > 0 THEN Rat(campaign_spend, new_customer_count) ELSE Zero
        new_customer_ltv ==
            IF new_customer_count > 0 THEN Mean(Column(new_customers_in_period, "LTV")) ELSE Zero
        ltv_cac_ratio == IF RLt(Zero, cac) THEN RDiv(new_customer_ltv, cac) ELSE Zero
        avg_monthly_spend ==
            IF new_customer_count > 0
            THEN Mean(Column(new_customers_in_period, "Avg_Spend")) ELSE Zero
        avg_frequency ==
            IF new_customer_count > 0
            THEN RMean(Column(new_customers_in_period, "Purchase_Frequency")) ELSE Zero
        monthly_value == RMul(avg_monthly_spend, avg_frequency)
        payback_months == PaybackMonths(cac, monthly_value)
    IN  [Campaign |-> period.campaign_name,
         Period |-> <<period.start_date, period.end_date>>,
         Marketing_Spend |-> campaign_spend,
         New_Customers |-> new_customer_count,
         CAC |-> cac,
         Avg_New_Customer_LTV |-> new_customer_ltv,
         LTV_CAC_Ratio |-> ltv_cac_ratio,
         Payback_Months |-> payback_months]

\* Lines 614-651: one entry per window that has start and end dates, in list order.
RECURSIVE CacLoop(_, _)
CacLoop(periods, customers) ==
    IF periods = <<>> THEN <<>>
    ELSE (IF IsExplicit(Head(periods)) THEN <<CacEntry(Head(periods), customers)>> ELSE <<>>)
         \o CacLoop(Tail(periods), customers)

\* Lines 659-703: the averages over cac_df and their tiers (CAC: lower is better).
CacSummary(cac_df) ==
    LET avg_cac == RMean(Column(cac_df, "CAC"))
        avg_ratio == RMean(Column(cac_df, "LTV_CAC_Ratio"))
        Finite(e) == e.Payback_Months # Inf
        avg_payback == RMean(Column(SelectSeq(cac_df, Finite), "Payback_Months"))
    IN  [avg_cac |-> avg_cac,
         cac_status |-> IF RLe(avg_cac, RInt(1500)) THEN "Excellent"
                        ELSE IF RLe(avg_cac, RInt(3000)) THEN "Good"
                        ELSE "Needs Attention",
         avg_ltv_new |-> RMean(Column(cac_df, "Avg_New_Customer_LTV")),
         avg_ratio |-> avg_ratio,
         ratio_status |-> IF RLe(RInt(5), avg_ratio) THEN "Excellent"
                          ELSE IF RLe(RInt(3), avg_ratio) THEN "Good"
                          ELSE "Needs Attention",
         avg_payback |-> avg_payback,
         payback_status |-> IF avg_payback = NaN THEN "N/A"
                            ELSE IF RLe(avg_payback, RInt(3)) THEN "Excellent"
                            ELSE IF RLe(avg_payback, RInt(6)) THEN "Good"
                            ELSE "Needs Attention"]

\* An f-string with a fixed number of decimals, as the number of units of the last
\* decimal shown (float formatting rounds the stored binary value; the exact
\* fraction is rounded here, halves to even).
Fixed(r, decimals) ==
    RoundHalfEven(RMul(r, RInt(IF decimals = 0 THEN 1 ELSE IF decimals = 1 THEN 10 ELSE 100)))

\* Line 731: one decimal, or the infinity symbol (U+221E, written "infinity" here).
DisplayPayback(x) ==
    IF x # Inf THEN [text |-> "fixed1", tenths |-> Fixed(x, 1)] ELSE [text |-> "infinity"]

\* Lines 725-732: the copy of cac_df with its columns formatted and renamed; money
\* is in pounds on the page, so hundredths are shown with two decimals as they are.
DisplayCac(cac_df) ==
    [i \in DOMAIN cac_df |->
        LET e == cac_df[i] IN
        [Campaign |-> e.Campaign,
         Period |-> e.Period,
         Spend |-> Fixed(Rat(e.Marketing_Spend, 100), 0),
         New_Customers |-> e.New_Customers,
         CAC |-> Fixed(RDiv(e.CAC, RInt(100)), 2),
         New_Customer_LTV |-> Fixed(RDiv(e.Avg_New_Customer_LTV, RInt(100)), 2),
         LTV_CAC |-> Fixed(e.LTV_CAC_Ratio, 1),
         Payback_Months |-> DisplayPayback(e.Payback_Months)]]

\* Lines 543-563, where the aggregation returns.
BuildCustomerAnalysis ==
    /\ pc = "start"
    /\ transaction_df.hasSoldTo
    /\ transaction_df.hasQty
    /\ customer_analysis' = CustomerAnalysis(transaction_df)
    /\ pc' = "customers"
    /\ UNCHANGED <<transaction_df, marketing_df, args, business_metrics, marketing_metrics,
                   benchmark_status, promo_results, rendered, promotion_analysis,
                   cac_analysis, cac_summary,
                   display_cac, uploaded_transaction_files, uploaded_marketing_files,
                   transaction_file_info, marketing_file_info, warnings, page,
                   earlier_uploads>>

\* Lines 547-551: the aggregation names the column 'Quantity Sold' whether or not it
\* exists; without it pandas raises KeyError.
BuildCustomerAnalysisRaises ==
    /\ pc = "start"
    /\ transaction_df.hasSoldTo
    /\ ~transaction_df.hasQty
    /\ pc' = "raised"
    /\ UNCHANGED <<transaction_df, marketing_df, args, business_metrics, marketing_metrics,
                   benchmark_status, promo_results, rendered, customer_analysis,
                   promotion_analysis, cac_analysis, cac_summary,
                   display_cac, uploaded_transaction_files, uploaded_marketing_files,
                   transaction_file_info, marketing_file_info, warnings, page,
                   earlier_uploads>>

\* Line 543: without a 'Sold To' column the whole section is skipped.
SkipCustomerSection ==
    /\ pc = "start"
    /\ ~transaction_df.hasSoldTo
    /\ pc' = "done"
    /\ UNCHANGED <<transaction_df, marketing_df, args, business_metrics, marketing_metrics,
                   benchmark_status, promo_results, rendered, customer_analysis,
                   promotion_analysis, cac_analysis, cac_summary,
                   display_cac, uploaded_transaction_files, uploaded_marketing_files,
                   transaction_file_info, marketing_file_info, warnings, page,
                   earlier_uploads>>

\* Lines 610-651.
BuildCacAnalysis ==
    /\ pc = "customers"
    /\ Len(marketing_df.rows) > 0 /\ promotion_analysis.has_promotion_data
    /\ cac_analysis' = CacLoop(promotion_analysis.promotion_periods, customer_analysis)
    /\ pc' = "cac"
    /\ UNCHANGED <<transaction_df, marketing_df, args, business_metrics, marketing_metrics,
                   benchmark_status, promo_results, rendered, customer_analysis,
                   promotion_analysis, cac_summary,
                   display_cac, uploaded_transaction_files, uploaded_marketing_files,
                   transaction_file_info, marketing_file_info, warnings, page,
                   earlier_uploads>>

\* Line 610: no marketing data, or no campaign window.
SkipCacAnalysis ==
    /\ pc = "customers"
    /\ ~(Len(marketing_df.rows) > 0 /\ promotion_analysis.has_promotion_data)
    /\ pc' = "done"
    /\ UNCHANGED <<transaction_df, marketing_df, args, business_metrics, marketing_metrics,
                   benchmark_status, promo_results, rendered, customer_analysis,
                   promotion_analysis, cac_analysis, cac_summary,
                   display_cac, uploaded_transaction_files, uploaded_marketing_files,
                   transaction_file_info, marketing_file_info, warnings, page,
                   earlier_uploads>>

\* Lines 653-733: `if cac_analysis:` computes the averages and shows the table.
SummariseCac ==
    /\ pc = "cac"
    /\ cac_summary' = IF cac_analysis # <<>> THEN CacSummary(cac_analysis) ELSE cac_summary
    /\ display_cac' = IF cac_analysis # <<>> THEN DisplayCac(cac_analysis) ELSE display_cac
    /\ pc' = "done"
    /\ UNCHANGED <<transaction_df, marketing_df, args, business_metrics, marketing_metrics,
                   benchmark_status, promo_results, rendered, customer_analysis,
                   promotion_analysis, cac_analysis,
                   uploaded_transaction_files, uploaded_marketing_files,
                   transaction_file_info, marketing_file_info, warnings, page,
                   earlier_uploads>>

----------------------------------------------------------------------------
(* Customer segments                                                       *)

SegAmounts ==
    {0 - 1, 0, 1, 2499, 2500, 2501, 7499, 7500, 7501, 14999, 15000, 15001}
SegCustomers == {1, 2}
SegRows == {TxRow(Days(1), a, "OTHER", c, "A", 1) : a \in SegAmounts, c \in SegCustomers}

InitSeg ==
    /\ pc = "start"
    /\ \E rows \in SeqUpTo(SegRows, MaxSegRows), hasSoldTo \in BOOLEAN, hasQty \in BOOLEAN :
           transaction_df = TxTable(rows, hasSoldTo, hasQty)
    /\ marketing_df = NoMkt
    /\ args = NotCalled
    /\ business_metrics = NotCalled
    /\ marketing_metrics = NotCalled
    /\ benchmark_status = NotCalled
    /\ promo_results = NotCalled
    /\ rendered = NotCalled
    /\ customer_analysis = NotCalled
    /\ promotion_analysis = NotCalled
    /\ cac_analysis = NotCalled
    /\ cac_summary = NotCalled
    /\ display_cac = NotCalled
    /\ uploaded_transaction_files = NotCalled
    /\ uploaded_marketing_files = NotCalled
    /\ transaction_file_info = NotCalled
    /\ marketing_file_info = NotCalled
    /\ warnings = NotCalled
    /\ page = NotCalled
    /\ earlier_uploads = NotCalled

NextSeg == BuildCustomerAnalysis \/ BuildCustomerAnalysisRaises \/ SkipCustomerSection

SpecSeg == InitSeg /\ [][NextSeg]_vars

\* C6: every customer gets exactly one of the four segments: VIP when LTV >= 150,
\* High when 75 <= LTV < 150, Medium when 25 <= LTV < 75 and Low otherwise
\* (LTV in hundredths: 150 is 15000 and 149.99 is 14999).
C6_SegmentThresholds ==
    pc = "customers" =>
        \A k \in DOMAIN customer_analysis :
            LET c == customer_analysis[k] IN
            c.Customer_Segment =
                IF c.LTV >= 15000 THEN "VIP"
                ELSE IF c.LTV >= 7500 THEN "High Value"
                ELSE IF c.LTV >= 2500 THEN "Medium Value"
                ELSE "Low Value"

----------------------------------------------------------------------------
(* CAC analysis                                                            *)

CacDates == {Days(5), Days(35)}
CacAmounts == {0, 1, 2}
CacCustomers == {1, 2}
CacRows == {TxRow(d, a, "OTHER", c, "A", 1) : d \in CacDates, a \in CacAmounts, c \in CacCustomers}

CacPeriods ==
    {ExplicitPeriod(w[1], w[2], "Promotion", spend) :
        w \in {<<Days(1), Days(10)>>, <<Days(31), Days(40)>>}, spend \in {0, 100}}
    \cup {MonthPeriod(1, 100, "1 Campaign")}

\* The marketing row a window was taken from (only the number of rows is read here).
PeriodRow(p) ==
    IF IsExplicit(p) THEN MktRow(p.start_date, p.spend, p.start_date, p.end_date, p.campaign_name)
    ELSE MktRow(p.period, p.spend, 0, 0, "General")

InitCAC ==
    /\ pc = "start"
    /\ \E rows \in SeqUpTo(CacRows, MaxCacRows), hasSoldTo \in BOOLEAN, hasQty \in BOOLEAN :
           /\ Ranked(rows)
           /\ transaction_df = TxTable(rows, hasSoldTo, hasQty)
    /\ \E periods \in SeqUpTo(CacPeriods, MaxPeriods) :
           /\ promotion_analysis = [has_promotion_data |-> Len(periods) > 0,
                                    promotion_periods |-> periods]
           /\ marketing_df = MktTable([i \in DOMAIN periods |-> PeriodRow(periods[i])], TRUE)
    /\ args = NotCalled
    /\ business_metrics = NotCalled
    /\ marketing_metrics = NotCalled
    /\ benchmark_status = NotCalled
    /\ promo_results = NotCalled
    /\ rendered = NotCalled
    /\ customer_analysis = NotCalled
    /\ cac_analysis = NotCalled
    /\ cac_summary = NotCalled
    /\ display_cac = NotCalled
    /\ uploaded_transaction_files = NotCalled
    /\ uploaded_marketing_files = NotCalled
    /\ transaction_file_info = NotCalled
    /\ marketing_file_info = NotCalled
    /\ warnings = NotCalled
    /\ page = NotCalled
    /\ earlier_uploads = NotCalled

NextCAC ==
    \/ BuildCustomerAnalysis
    \/ BuildCustomerAnalysisRaises
    \/ SkipCustomerSection
    \/ BuildCacAnalysis
    \/ SkipCacAnalysis
    \/ SummariseCac

SpecCAC == InitCAC /\ [][NextCAC]_vars

\* C10: a window in which no customer made a first purchase has its CAC reported as
\* a distinct undefined value, never as the number 0, so that it differs from the
\* CAC of a window that acquired customers at zero spend.
C10_UndefinedCacDistinct ==
    pc \in {"cac", "done"} =>
        \A i, j \in DOMAIN cac_analysis :
            LET e == cac_analysis[i]
                f == cac_analysis[j]
            IN  /\ e.New_Customers = 0 => e.CAC # Zero
                /\ (e.New_Customers = 0 /\ f.New_Customers > 0) => e.CAC # f.CAC

\* The cohort of an entry and its monthly value, from the customer table.
CohortOf(e) ==
    LET InPeriod(c) == e.Period[1] <= c.First_Purchase /\ c.First_Purchase <= e.Period[2]
    IN  SelectSeq(customer_analysis, InPeriod)

MonthlyValueOf(e) ==
    IF CohortOf(e) = <<>> THEN Zero
    ELSE RMul(Mean(Column(CohortOf(e), "Avg_Spend")),
              RMean(Column(CohortOf(e), "Purchase_Frequency")))

FinitePaybacks == SelectSeq(Column(cac_analysis, "Payback_Months"), LAMBDA x : x # Inf)

\* C11: for every campaign window, payback_months times the monthly value of the
\* acquired cohort (mean avg_spend times mean purchase_frequency) is the CAC when the
\* monthly value is greater than 0, and payback_months is the infinite sentinel, not
\* 0, when the monthly value is 0; the average payback is the mean of the finite
\* entries only (N/A when there is none), and the table shows the infinite entries,
\* and no other, as the infinity symbol.
C11_PaybackSentinel ==
    /\ pc \in {"cac", "done"} =>
        \A i \in DOMAIN cac_analysis :
            LET e == cac_analysis[i]
                monthly_value == MonthlyValueOf(e)
            IN  /\ RLt(Zero, monthly_value) =>
                       /\ e.Payback_Months # Inf
                       /\ RMul(e.Payback_Months, monthly_value) = e.CAC
                /\ monthly_value = Zero =>
                       e.Payback_Months = Inf /\ e.Payback_Months # Zero
    /\ (pc = "done" /\ cac_analysis # NotCalled /\ cac_analysis # <<>>) =>
        /\ cac_summary.avg_payback = RMean(FinitePaybacks)
        /\ cac_summary.payback_status = "N/A" <=> FinitePaybacks = <<>>
        /\ \A i \in DOMAIN cac_analysis :
               display_cac[i].Payback_Months.text = "infinity"
                   <=> cac_analysis[i].Payback_Months = Inf

\* A table shown with one window whose cohort spends nothing (payback infinite at a
\* positive CAC) next to one that pays back in finite time.
C11_Witness ==
    /\ pc = "done"
    /\ cac_analysis # NotCalled
    /\ \E i, j \in DOMAIN cac_analysis :
           /\ cac_analysis[i].Payback_Months = Inf
           /\ RLt(Zero, cac_analysis[i].CAC)
           /\ display_cac[i].Payback_Months.text = "infinity"
           /\ cac_analysis[j].Payback_Months # Inf
           /\ RLt(Zero, cac_analysis[j].Payback_Months)
           /\ cac_summary.avg_payback = cac_analysis[j].Payback_Months

----------------------------------------------------------------------------
(* CAC of two campaign windows over up to five customers                   *)

CohortCustomers == {1, 2, 3, 4, 5}
\* First purchases fall on the last day of the first window and on the first day of
\* the second.
CohortWindows == <<(<<Days(1), Days(5)>>), (<<Days(35), Days(40)>>)>>
\* The spends of the two windows.
CohortSpends == {<<100, 200>>, <<0, 200>>, <<0 - 100, 0>>}
CohortRows ==
    {TxRow(d, 1, "OTHER", c, "A", 1) : d \in {Days(5), Days(35)}, c \in CohortCustomers}

InitCohort ==
    /\ pc = "start"
    /\ \E rows \in SeqUpTo(CohortRows, MaxCohortRows) :
           /\ Ranked(rows)
           /\ transaction_df = TxTable(rows, TRUE, TRUE)
    /\ \E spends \in CohortSpends :
           LET periods ==
                   [k \in {1, 2} |->
                       ExplicitPeriod(CohortWindows[k][1], CohortWindows[k][2], "Promotion",
                                      spends[k])]
           IN  /\ promotion_analysis = [has_promotion_data |-> TRUE,
                                        promotion_periods |-> periods]
               /\ marketing_df = MktTable([i \in DOMAIN periods |-> PeriodRow(periods[i])], TRUE)
    /\ args = NotCalled
    /\ business_metrics = NotCalled
    /\ marketing_metrics = NotCalled
    /\ benchmark_status = NotCalled
    /\ promo_results = NotCalled
    /\ rendered = NotCalled
    /\ customer_analysis = NotCalled
    /\ cac_analysis = NotCalled
    /\ cac_summary = NotCalled
    /\ display_cac = NotCalled
    /\ uploaded_transaction_files = NotCalled
    /\ uploaded_marketing_files = NotCalled
    /\ transaction_file_info = NotCalled
    /\ marketing_file_info = NotCalled
    /\ warnings = NotCalled
    /\ page = NotCalled
    /\ earlier_uploads = NotCalled

NextCohort == BuildCustomerAnalysis \/ BuildCacAnalysis \/ SummariseCac

SpecCohort == InitCohort /\ [][NextCohort]_vars

\* The customers of transaction_df whose earliest row lies in window k, and the sum
\* of all their rows.
AcquiredIn(k) ==
    LET rows == transaction_df.rows
        First(c) == MinOf({rows[i].Date : i \in {j \in DOMAIN rows : rows[j].SoldTo = c}})
    IN  {c \in {rows[i].SoldTo : i \in DOMAIN rows} \ {0} :
            CohortWindows[k][1] <= First(c) /\ First(c) <= CohortWindows[k][2]}

LtvOf(S) ==
    LET Bought(r) == r.SoldTo \in S
    IN  SumSeq(Column(SelectSeq(transaction_df.rows, Bought), "Amount"))

\* C12 as stated: the ratio is mean LTV / CAC unless the CAC is 0.
C12_AsStated ==
    pc \in {"cac", "done"} =>
        \A k \in DOMAIN cac_analysis :
            LET e == cac_analysis[k]
                count == Cardinality(AcquiredIn(k))
            IN  e.LTV_CAC_Ratio =
                    IF e.CAC = Zero THEN Zero ELSE RDiv(Rat(LtvOf(AcquiredIn(k)), count), e.CAC)

\* C12: for every campaign window with start and end dates, New_Customers is the
\* number of customers whose first purchase lies in the window, both ends included;
\* CAC = spend / that number when it is positive; LTV_CAC_Ratio = mean LTV of those
\* customers / CAC when the CAC is greater than 0, and 0 when the CAC is 0 or
\* negative; with spends 100 and 200 and 2 and 3 first purchases the CACs are 50 and
\* 200/3.
C12_CacPerWindow ==
    pc \in {"cac", "done"} =>
        /\ Len(cac_analysis) = Len(promotion_analysis.promotion_periods)
        /\ \A k \in DOMAIN cac_analysis :
            LET e == cac_analysis[k]
                spend == promotion_analysis.promotion_periods[k].spend
                count == Cardinality(AcquiredIn(k))
            IN  /\ e.New_Customers = count
                /\ count > 0 => e.CAC = Rat(spend, count)
                /\ RLt(Zero, e.CAC) =>
                       e.LTV_CAC_Ratio = RDiv(Rat(LtvOf(AcquiredIn(k)), count), e.CAC)
                /\ RLe(e.CAC, Zero) => e.LTV_CAC_Ratio = Zero
        /\ (/\ promotion_analysis.promotion_periods[1].spend = 100
            /\ promotion_analysis.promotion_periods[2].spend = 200
            /\ Cardinality(AcquiredIn(1)) = 2
            /\ Cardinality(AcquiredIn(2)) = 3) =>
               cac_analysis[1].CAC = RInt(50) /\ cac_analysis[2].CAC = Rat(200, 3)

\* Five customers, two acquired in the first window at spend 100 and three in the
\* second at spend 200, after the CAC loop.
C12_Witness ==
    /\ pc = "done"
    /\ promotion_analysis.promotion_periods[1].spend = 100
    /\ promotion_analysis.promotion_periods[2].spend = 200
    /\ cac_analysis[1].New_Customers = 2
    /\ cac_analysis[2].New_Customers = 3
    /\ cac_analysis[1].CAC = RInt(50)
    /\ cac_analysis[2].CAC = Rat(200, 3)
    /\ RLt(Zero, cac_analysis[2].LTV_CAC_Ratio)

----------------------------------------------------------------------------
(* Files, cells and load_and_combine_files                                 *)

\* A cell as pd.read_csv leaves it: "num" a number v; "str_date" a string that
\* reads as the timestamp v; "str_num" a string that reads as the number v (in a
\* column that also holds other text); "str_junk" any other string; "str" a string
\* kept with its text s; "nan" an empty cell.  "time" is a parsed timestamp v and
\* "nat" the missing timestamp.
Cell(kind, v) == [kind |-> kind, v |-> v, s |-> ""]
Str(s) == [kind |-> "str", v |-> 0, s |-> s]
NaNCell == Cell("nan", 0)
NaT == Cell("nat", 0)

\* A table addressed by column names: each row maps every column to a cell.
Frame(cols, rows) == [cols |-> cols, rows |-> rows]

\* An uploaded file; its content is a table, or Malformed when pd.read_csv raises on it.
File(name, content) == [name |-> name, content |-> content]
Malformed == [error |-> "EmptyDataError"]

\* pd.DataFrame(): no column, no row.
EmptyDataFrame(file_type) == IF file_type = "transaction" THEN NoTable ELSE Frame({}, <<>>)

\* The column filled with one fixed name for every file.
WithSourceFile_Constant(df, file_type, name) ==
    IF file_type = "transaction"
    THEN [df EXCEPT !.rows =
             [i \in DOMAIN df.rows |-> df.rows[i] @@ [Source_File |-> "upload.csv"]]]
    ELSE Frame(df.cols \cup {"Source_File"},
               [i \in DOMAIN df.rows |-> ("Source_File" :> Str("upload.csv")) @@ df.rows[i]])

\* Line 82: df['Source_File'] = file.name.
WithSourceFile(df, file_type, name) ==
    IF file_type = "transaction"
    THEN [df EXCEPT !.rows = [i \in DOMAIN df.rows |-> df.rows[i] @@ [Source_File |-> name]]]
    ELSE Frame(df.cols \cup {"Source_File"},
               [i \in DOMAIN df.rows |-> ("Source_File" :> Str(name)) @@ df.rows[i]])

\* The combined table replaced by the table of the file instead of extended by it.
Concat_Replace(file_type, a, b) ==
    IF file_type = "transaction"
    THEN TxTable([i \in DOMAIN b.rows |->
                     [b.rows[i] EXCEPT !.SoldTo = IF b.hasSoldTo THEN @ ELSE 0,
                                       !.Qty = IF b.hasQty THEN @ ELSE 0]],
                 b.hasSoldTo, b.hasQty)
    ELSE b

\* Line 83: pd.concat([combined_df, df], ignore_index=True): the rows of both in
\* order over the union of the columns, a column a table lacks left empty (0 for a
\* missing 'Sold To', and for a missing quantity, which sums skip).
Concat(file_type, a, b) ==
    IF file_type = "transaction"
    THEN LET Fill(t) ==
                 [i \in DOMAIN t.rows |->
                     [t.rows[i] EXCEPT !.SoldTo = IF t.hasSoldTo THEN @ ELSE 0,
                                       !.Qty = IF t.hasQty THEN @ ELSE 0]]
         IN  TxTable(Fill(a) \o Fill(b), a.hasSoldTo \/ b.hasSoldTo, a.hasQty \/ b.hasQty)
    ELSE LET cols == a.cols \cup b.cols
             Fill(t) ==
                 [i \in DOMAIN t.rows |->
                     [c \in cols |-> IF c \in t.cols THEN t.rows[i][c] ELSE NaNCell]]
         IN  Frame(cols, Fill(a) \o Fill(b))

\* The same step with duplicate rows dropped after the concatenation.
LoadFile_DropDuplicates(loaded, file, file_type) ==
    IF "error" \in DOMAIN file.content
    THEN [loaded EXCEPT !.file_info =
             Append(@, [filename |-> file.name, rows |-> 0, type |-> file_type,
                        status |-> "Error: " \o file.content.error])]
    ELSE LET df == file.content
             all == Concat(file_type, loaded.combined_df, df).rows
             Seen(i) == \E j \in 1..(i - 1) : all[j] = all[i]
             Keep(n) == SelectSeq([i \in 1..n |-> i], LAMBDA i : ~Seen(i))
             kept == [k \in DOMAIN Keep(Len(all)) |-> all[Keep(Len(all))[k]]]
         IN  [combined_df |-> [Concat(file_type, loaded.combined_df, df) EXCEPT !.rows = kept],
              file_info |->
                  Append(loaded.file_info,
                         [filename |-> file.name, rows |-> Len(df.rows), type |-> file_type,
                          status |-> "Success"])]

\* The same step with a failing file ending the batch: nothing is combined.
LoadFile_AbortBatch(loaded, file, file_type) ==
    IF "error" \in DOMAIN file.content
    THEN [combined_df |-> EmptyDataFrame(file_type),
          file_info |-> <<[filename |-> file.name, rows |-> 0, type |-> file_type,
                           status |-> "Error: " \o file.content.error]>>]
    ELSE LET df == WithSourceFile(file.content, file_type, file.name)
         IN  [combined_df |-> Concat(file_type, loaded.combined_df, df),
              file_info |->
                  Append(loaded.file_info,
                         [filename |-> file.name, rows |-> Len(df.rows), type |-> file_type,
                          status |-> "Success"])]

\* Lines 79-97: one turn of the loop.  A file that raises adds its status entry and
\* nothing else (the concatenation is the last thing that can fail before the entry).
LoadFile(loaded, file, file_type) ==
    IF "error" \in DOMAIN file.content
    THEN [loaded EXCEPT !.file_info =
             Append(@, [filename |-> file.name, rows |-> 0, type |-> file_type,
                        status |-> "Error: " \o file.content.error])]
    ELSE LET df == WithSourceFile(file.content, file_type, file.name)
         IN  [combined_df |-> Concat(file_type, loaded.combined_df, df),
              file_info |->
                  Append(loaded.file_info,
                         [filename |-> file.name, rows |-> Len(df.rows), type |-> file_type,
                          status |-> "Success"])]

\* Lines 74-99: the pair (combined_df, file_info), as a record.
RECURSIVE load_and_combine_files(_, _)
load_and_combine_files(uploaded_files, file_type) ==
    IF uploaded_files = <<>>
    THEN [combined_df |-> EmptyDataFrame(file_type), file_info |-> <<>>]
    ELSE LoadFile(load_and_combine_files(SubSeq(uploaded_files, 1, Len(uploaded_files) - 1),
                                         file_type),
                  uploaded_files[Len(uploaded_files)], file_type)

----------------------------------------------------------------------------
(* process_marketing_data and calculate_promotion_analysis                  *)

\* pd.to_numeric(errors='coerce') on a cell.
to_numeric(c) ==
    IF c.kind = "num" THEN c
    ELSE IF c.kind = "str_num" THEN Cell("num", c.v)
    ELSE NaNCell

\* The conversion reading strings only: a cell that is a timestamp already is lost.
to_datetime_StringsOnly(c) ==
    IF c.kind = "str_date" THEN Cell("time", c.v) ELSE NaT

\* pd.to_datetime(errors='coerce') on a string, empty or timestamp cell.
to_datetime(c) ==
    IF c.kind = "time" THEN c
    ELSE IF c.kind = "str_date" THEN Cell("time", c.v)
    ELSE NaT

\* Lines 107 and 121.
date_columns == <<"Date", "date", "DATE", "Day", "day">>
amount_columns ==
    <<"Amount", "amount", "Spend", "spend", "Cost", "cost", "Amount Spent",
      "Amount spent (GBP)", "Amount spent (USD)", "Amount (GBP)", "Amount (USD)", "Spent">>

\* The last name of the list that is a column.
FirstPresent_Last(candidates, cols) ==
    IF \E i \in DOMAIN candidates : candidates[i] \in cols
    THEN candidates[MaxOf({i \in DOMAIN candidates : candidates[i] \in cols})]
    ELSE "None"

\* Lines 108-112 and 122-126: the first name of the list that is a column, "None"
\* when there is none.
FirstPresent(candidates, cols) ==
    IF \E i \in DOMAIN candidates : candidates[i] \in cols
    THEN candidates[MinOf({i \in DOMAIN candidates : candidates[i] \in cols})]
    ELSE "None"

\* df[col] = values: the column is added, or overwritten when it exists.
SetColumn(df, col, values) ==
    Frame(df.cols \cup {col}, [i \in DOMAIN df.rows |-> (col :> values[i]) @@ df.rows[i]])

\* Lines 101-146.  An empty table is returned as it is.
process_marketing_data(df) ==
    IF Len(df.rows) = 0 THEN df
    ELSE LET date_col == FirstPresent(date_columns, df.cols)
             dated ==
                 IF date_col # "None"
                 THEN SetColumn(df, "Date",
                                [i \in DOMAIN df.rows |-> to_datetime(df.rows[i][date_col])])
                 ELSE df
             amount_col == FirstPresent(amount_columns, dated.cols)
             amounts ==
                 SetColumn(dated, "Amount",
                           [i \in DOMAIN df.rows |->
                               IF amount_col # "None" THEN to_numeric(dated.rows[i][amount_col])
                               ELSE Cell("num", 0)])
             platforms ==
                 IF "Platform" \notin amounts.cols /\ "platform" \notin amounts.cols
                 THEN SetColumn(amounts, "Platform",
                                [i \in DOMAIN df.rows |-> Str("Unknown")])
                 ELSE amounts
         IN  IF "Campaign" \notin platforms.cols /\ "campaign" \notin platforms.cols
             THEN SetColumn(platforms, "Campaign",
                            [i \in DOMAIN df.rows |-> Str("General")])
             ELSE platforms

\* Line 135: the st.warning of a run of process_marketing_data.
ProcessingWarnings(df) ==
    IF Len(df.rows) > 0 /\ FirstPresent(amount_columns, df.cols) = "None"
    THEN <<"No amount/spend column found in marketing data">>
    ELSE <<>>

\* The numbers of a cell as sums take them (NaN is skipped), and its text.
CellNumber(c) == IF c.kind = "num" THEN c.v ELSE 0
CellText(c) == IF c.kind = "str" THEN c.s ELSE "nan"

\* The marketing table as calculate_marketing_metrics reads it: the 'Amount' column.
AmountTable(df) ==
    MktTable([i \in DOMAIN df.rows |->
                 MktRow(0, IF "Amount" \in df.cols THEN CellNumber(df.rows[i]["Amount"]) ELSE 0,
                        0, 0, "General")],
             "Amount" \in df.cols)

\* Series.dt.to_period('M') on a timestamp, as year * 100 + month; day 1 is
\* 2025-06-01, and the missing timestamp has the missing period 0.
MonthOf(t) ==
    LET day == t \div TicksPerDay
    IN  IF day < 1 THEN 202505 ELSE IF day <= 30 THEN 202506
        ELSE IF day <= 61 THEN 202507 ELSE 202508
PeriodOf(c) == IF c.kind = "time" THEN MonthOf(c.v) ELSE 0

\* Series.unique(): the distinct values in the order of their first appearance.
RECURSIVE Unique(_)
Unique(s) ==
    IF s = <<>> THEN <<>>
    ELSE LET front == Unique(SubSeq(s, 1, Len(s) - 1))
             last == s[Len(s)]
         IN  IF \E i \in DOMAIN front : front[i] = last THEN front ELSE Append(front, last)

\* Lines 268-281: the window of one row, or none when a date is missing or not a date.
RowPeriods(df, row) ==
    LET start_date == to_datetime(row["Reporting starts"])
        end_date == to_datetime(row["Reporting ends"])
        campaign_name ==
            IF "Campaign name" \in df.cols THEN CellText(row["Campaign name"])
            ELSE IF "Campaign" \in df.cols THEN CellText(row["Campaign"])
            ELSE "Promotion"
    IN  IF start_date # NaT /\ end_date # NaT
        THEN <<ExplicitPeriod(start_date.v, end_date.v, campaign_name,
                              IF row["Amount"].kind = "num" THEN row["Amount"].v ELSE NaN)>>
        ELSE <<>>

RECURSIVE ExplicitPeriods(_, _)
ExplicitPeriods(df, rows) ==
    IF rows = <<>> THEN <<>> ELSE RowPeriods(df, Head(rows)) \o ExplicitPeriods(df, Tail(rows))

\* Lines 284-292: one window per month of the 'Date' column; no row equals the
\* missing period, so its spend is 0.
MonthPeriods(df) ==
    LET marketing_months == Unique([i \in DOMAIN df.rows |-> PeriodOf(df.rows[i]["Date"])])
        InMonth(month) ==
            SelectSeq(df.rows, LAMBDA r : month # 0 /\ PeriodOf(r["Date"]) = month)
    IN  [k \in DOMAIN marketing_months |->
            MonthPeriod(marketing_months[k],
                        SumSeq([i \in DOMAIN InMonth(marketing_months[k]) |->
                                   CellNumber(InMonth(marketing_months[k])[i]["Amount"])]),
                        ToString(marketing_months[k]) \o " Campaign")]

\* calculate_promotion_analysis with the month windows added whenever a 'Date'
\* column exists, after the windows of the reporting periods.
calculate_promotion_analysis_Appending(tx, df) ==
    IF Len(tx.rows) = 0
    THEN [has_promotion_data |-> FALSE, promotion_periods |-> <<>>]
    ELSE LET explicit ==
                 IF /\ Len(df.rows) > 0 /\ "Amount" \in df.cols
                    /\ "Reporting starts" \in df.cols /\ "Reporting ends" \in df.cols
                 THEN ExplicitPeriods(df, df.rows)
                 ELSE <<>>
             promotion_periods ==
                 IF Len(df.rows) > 0 /\ "Amount" \in df.cols /\ "Date" \in df.cols
                 THEN explicit \o MonthPeriods(df)
                 ELSE explicit
         IN  [has_promotion_data |-> Len(promotion_periods) > 0,
              promotion_periods |-> promotion_periods]

\* calculate_promotion_analysis without its first test.
calculate_promotion_analysis_Unguarded(tx, df) ==
    LET explicit ==
            IF /\ Len(df.rows) > 0 /\ "Amount" \in df.cols
               /\ "Reporting starts" \in df.cols /\ "Reporting ends" \in df.cols
            THEN ExplicitPeriods(df, df.rows)
            ELSE <<>>
        promotion_periods ==
            IF /\ Len(df.rows) > 0 /\ "Amount" \in df.cols
               /\ explicit = <<>> /\ "Date" \in df.cols
            THEN MonthPeriods(df)
            ELSE explicit
    IN  [has_promotion_data |-> Len(promotion_periods) > 0,
         promotion_periods |-> promotion_periods]

\* Lines 251-297, the value returned.
calculate_promotion_analysis(tx, df) ==
    IF Len(tx.rows) = 0
    THEN [has_promotion_data |-> FALSE, promotion_periods |-> <<>>]
    ELSE LET explicit ==
                 IF /\ Len(df.rows) > 0 /\ "Amount" \in df.cols
                    /\ "Reporting starts" \in df.cols /\ "Reporting ends" \in df.cols
                 THEN ExplicitPeriods(df, df.rows)
                 ELSE <<>>
             promotion_periods ==
                 IF /\ Len(df.rows) > 0 /\ "Amount" \in df.cols
                    /\ explicit = <<>> /\ "Date" \in df.cols
                 THEN MonthPeriods(df)
                 ELSE explicit
         IN  [has_promotion_data |-> Len(promotion_periods) > 0,
              promotion_periods |-> promotion_periods]

\* The column added after the rows with no date are dropped from the table.
WithMonthPeriod_DroppingUndated(tx) ==
    LET dated == SelectSeq(tx.rows, LAMBDA r : r.Date # 0)
    IN  [tx EXCEPT !.rows =
            [i \in DOMAIN dated |-> [Month_Period |-> MonthOf(dated[i].Date)] @@ dated[i]]]

\* Line 260: the column 'Month_Period' the function adds to the caller's table.
WithMonthPeriod(tx) ==
    [tx EXCEPT !.rows =
        [i \in DOMAIN tx.rows |->
            [Month_Period |-> IF tx.rows[i].Date = 0 THEN 0 ELSE MonthOf(tx.rows[i].Date)]
            @@ tx.rows[i]]]

----------------------------------------------------------------------------
(* process_marketing_data on tables with any set of columns                *)

\* The column names a raw marketing table is drawn from, and the cells each can hold.
ProcessColumns == {"Amount", "Spend", "Spent", "Date", "day", "platform", "Campaign", "Clicks"}
ColumnCells(col) ==
    IF col = "Amount" THEN {Cell("num", 1), Cell("str_junk", 0)}
    ELSE IF col = "Spend" THEN {Cell("num", 2), Cell("str_num", 4)}
    ELSE IF col = "Spent" THEN {Cell("num", 3), NaNCell}
    ELSE IF col = "Date" THEN {Cell("str_date", Days(5)), Cell("str_junk", 0)}
    ELSE IF col = "day" THEN {Cell("str_date", Days(35)), NaNCell}
    ELSE {Str(col)}

\* Every row over the given columns.
RECURSIVE RowsOver(_)
RowsOver(cols) ==
    IF cols = {} THEN {<<>>}
    ELSE LET c == CHOOSE x \in cols : TRUE
         IN  {(c :> v) @@ r : v \in ColumnCells(c), r \in RowsOver(cols \ {c})}

\* The raw tables that have the given columns.
ProcessFrames(cols) ==
    {Frame(cols, rows) : rows \in SeqUpTo(RowsOver(cols), MaxProcessRows)}

InitProcess ==
    /\ pc = "start"
    /\ \E cols \in SUBSET ProcessColumns : marketing_df \in ProcessFrames(cols)
    /\ args = [marketing_df |-> marketing_df]
    /\ transaction_df = NoTable
    /\ business_metrics = NotCalled
    /\ marketing_metrics = NotCalled
    /\ benchmark_status = NotCalled
    /\ promo_results = NotCalled
    /\ rendered = NotCalled
    /\ customer_analysis = NotCalled
    /\ promotion_analysis = NotCalled
    /\ cac_analysis = NotCalled
    /\ cac_summary = NotCalled
    /\ display_cac = NotCalled
    /\ uploaded_transaction_files = NotCalled
    /\ uploaded_marketing_files = NotCalled
    /\ transaction_file_info = NotCalled
    /\ marketing_file_info = NotCalled
    /\ warnings = <<>>
    /\ page = NotCalled
    /\ earlier_uploads = NotCalled

\* marketing_df = process_marketing_data(marketing_df), a first and a second time.
ProcessMarketingData ==
    /\ pc \in {"start", "done"}
    /\ marketing_df' = process_marketing_data(marketing_df)
    /\ warnings' = warnings \o ProcessingWarnings(marketing_df)
    /\ pc' = IF pc = "start" THEN "done" ELSE "twice"
    /\ UNCHANGED <<transaction_df, args, business_metrics, marketing_metrics,
                   benchmark_status, promo_results, rendered, customer_analysis,
                   promotion_analysis, cac_analysis, cac_summary, display_cac,
                   uploaded_transaction_files, uploaded_marketing_files,
                   transaction_file_info, marketing_file_info, page, earlier_uploads>>

NextProcess == ProcessMarketingData

SpecProcess == InitProcess /\ [][NextProcess]_vars

\* The candidate names present in the table handed in, and whether name is the
\* earliest of them in the list.
PresentAmounts ==
    {i \in DOMAIN amount_columns : amount_columns[i] \in args.marketing_df.cols}

\* C17: on a table with rows the function returns without raising; every row's
\* 'Amount' is the numeric reading of the candidate column that comes first in the
\* ordered list among those present, with no warning; with no candidate present it
\* is 0 on every row and a warning is issued; 'Platform' is 'Unknown' on every row
\* when the table has neither 'Platform' nor 'platform', and 'Campaign' is 'General'
\* when it has neither 'Campaign' nor 'campaign'.
C17_ColumnResolution ==
    /\ pc # "raised"
    /\ (pc = "done" /\ Len(args.marketing_df.rows) > 0) =>
        LET in == args.marketing_df
            out == marketing_df
        IN  /\ Len(out.rows) = Len(in.rows)
            /\ "Amount" \in out.cols
            /\ \A i \in DOMAIN in.rows :
                /\ \A k \in PresentAmounts :
                       (\A j \in PresentAmounts : k <= j) =>
                           /\ out.rows[i]["Amount"] = to_numeric(in.rows[i][amount_columns[k]])
                           /\ warnings = <<>>
                /\ PresentAmounts = {} =>
                       out.rows[i]["Amount"] = Cell("num", 0) /\ Len(warnings) = 1
                /\ in.cols \cap {"Platform", "platform"} = {} =>
                       "Platform" \in out.cols /\ out.rows[i]["Platform"] = Str("Unknown")
                /\ in.cols \cap {"Campaign", "campaign"} = {} =>
                       "Campaign" \in out.cols /\ out.rows[i]["Campaign"] = Str("General")

\* A table with 'Spend' and 'Spent' and no 'Amount', processed: the amount is the
\* one of 'Spend', and the defaults are filled in.
C17_Witness ==
    /\ pc = "done"
    /\ Len(args.marketing_df.rows) > 0
    /\ {"Spend", "Spent"} \subseteq args.marketing_df.cols
    /\ "Amount" \notin args.marketing_df.cols
    /\ "Campaign" \notin args.marketing_df.cols
    /\ args.marketing_df.rows[1]["Spent"] = Cell("num", 3)
    /\ marketing_df.rows[1]["Amount"] = Cell("num", 2)
    /\ marketing_df.rows[1]["Campaign"] = Str("General")
    /\ marketing_df.rows[1]["Platform"] = Str("Unknown")

----------------------------------------------------------------------------
(* The script from the uploaders to the metrics (lines 378-422, 1080-1083) *)

\* Line 400: pd.to_datetime(transaction_df['Date'], dayfirst=True) has no
\* errors='coerce': a string that is no date raises, an empty cell becomes NaT.
DatesRaise(df) == \E i \in DOMAIN df.rows : df.rows[i].Date.kind \notin {"str_date", "nan"}

\* Lines 400-402: 'Date' parsed (0 is NaT), and the column 'Month' ('Month_Name' is
\* the same month as text).
ParsedDates(df) ==
    [df EXCEPT !.rows =
        [i \in DOMAIN df.rows |->
            LET date == IF df.rows[i].Date.kind = "str_date" THEN df.rows[i].Date.v ELSE 0
            IN  [Month |-> IF date = 0 THEN 0 ELSE MonthOf(date)]
                @@ [df.rows[i] EXCEPT !.Date = date]]]

\* Lines 405-410: 'Month' and 'Month_Name' of the marketing table.
WithMonth(df) ==
    IF Len(df.rows) > 0 /\ "Date" \in df.cols
    THEN SetColumn(df, "Month",
                   [i \in DOMAIN df.rows |-> Cell("period", PeriodOf(df.rows[i]["Date"]))])
    ELSE df

\* Line 378, else branch at 1083: nothing in the transaction uploader.
Welcome ==
    /\ pc = "start"
    /\ uploaded_transaction_files = <<>>
    /\ page' = "welcome"
    /\ pc' = "done"
    /\ UNCHANGED <<transaction_df, marketing_df, args, business_metrics, marketing_metrics,
                   benchmark_status, promo_results, rendered, customer_analysis,
                   promotion_analysis, cac_analysis, cac_summary, display_cac,
                   uploaded_transaction_files, uploaded_marketing_files,
                   transaction_file_info, marketing_file_info, warnings, earlier_uploads>>

\* The same with the files of the earlier runs loaded again before the current ones.
LoadFiles_Accumulating ==
    /\ pc = "start"
    /\ uploaded_transaction_files # <<>>
    /\ LET RECURSIVE Earlier(_)
           Earlier(k) == IF k = 0 THEN <<>>
                         ELSE Earlier(k - 1) \o earlier_uploads[k].transactions
           t == load_and_combine_files(Earlier(Len(earlier_uploads))
                                           \o uploaded_transaction_files, "transaction")
           m == load_and_combine_files(uploaded_marketing_files, "marketing")
       IN  /\ transaction_df' = t.combined_df
           /\ transaction_file_info' = t.file_info
           /\ marketing_df' = process_marketing_data(m.combined_df)
           /\ marketing_file_info' = m.file_info
           /\ warnings' = ProcessingWarnings(m.combined_df)
    /\ pc' = "loaded"
    /\ UNCHANGED <<args, business_metrics, marketing_metrics,
                   benchmark_status, promo_results, rendered, customer_analysis,
                   promotion_analysis, cac_analysis, cac_summary, display_cac,
                   uploaded_transaction_files, uploaded_marketing_files, page,
                   earlier_uploads>>

\* Lines 379-397: both loads and the processing of the marketing table (an empty
\* uploader leaves pd.DataFrame() and no status entry, which is what the loader gives
\* for no file, and process_marketing_data returns an empty table as it is).
LoadFiles ==
    /\ pc = "start"
    /\ uploaded_transaction_files # <<>>
    /\ LET t == load_and_combine_files(uploaded_transaction_files, "transaction")
           m == load_and_combine_files(uploaded_marketing_files, "marketing")
       IN  /\ transaction_df' = t.combined_df
           /\ transaction_file_info' = t.file_info
           /\ marketing_df' = process_marketing_data(m.combined_df)
           /\ marketing_file_info' = m.file_info
           /\ warnings' = ProcessingWarnings(m.combined_df)
    /\ pc' = "loaded"
    /\ UNCHANGED <<args, business_metrics, marketing_metrics,
                   benchmark_status, promo_results, rendered, customer_analysis,
                   promotion_analysis, cac_analysis, cac_summary, display_cac,
                   uploaded_transaction_files, uploaded_marketing_files, page,
                   earlier_uploads>>

\* Lines 398 and 1080-1081: the combined table has no row.
NoTransactionData ==
    /\ pc = "loaded"
    /\ Len(transaction_df.rows) = 0
    /\ page' = "No valid transaction data found"
    /\ pc' = "done"
    /\ UNCHANGED <<transaction_df, marketing_df, args, business_metrics, marketing_metrics,
                   benchmark_status, promo_results, rendered, customer_analysis,
                   promotion_analysis, cac_analysis, cac_summary, display_cac,
                   uploaded_transaction_files, uploaded_marketing_files,
                   transaction_file_info, marketing_file_info, warnings, earlier_uploads>>

\* Lines 398-410.
ParseTransactionDates ==
    /\ pc = "loaded"
    /\ Len(transaction_df.rows) > 0
    /\ ~DatesRaise(transaction_df)
    /\ transaction_df' = ParsedDates(transaction_df)
    /\ marketing_df' = WithMonth(marketing_df)
    /\ pc' = "dated"
    /\ UNCHANGED <<args, business_metrics, marketing_metrics,
                   benchmark_status, promo_results, rendered, customer_analysis,
                   promotion_analysis, cac_analysis, cac_summary, display_cac,
                   uploaded_transaction_files, uploaded_marketing_files,
                   transaction_file_info, marketing_file_info, warnings, page,
                   earlier_uploads>>

\* Line 400 raising: the run ends with the exception on the page.
ParseTransactionDatesRaises ==
    /\ pc = "loaded"
    /\ Len(transaction_df.rows) > 0
    /\ DatesRaise(transaction_df)
    /\ page' = "exception"
    /\ pc' = "raised"
    /\ UNCHANGED <<transaction_df, marketing_df, args, business_metrics, marketing_metrics,
                   benchmark_status, promo_results, rendered, customer_analysis,
                   promotion_analysis, cac_analysis, cac_summary, display_cac,
                   uploaded_transaction_files, uploaded_marketing_files,
                   transaction_file_info, marketing_file_info, warnings, earlier_uploads>>

\* Lines 412-422: the three metric calls; the sections of the page below them are
\* examined from their tables in the specifications above.
ComputeMetrics ==
    /\ pc = "dated"
    /\ business_metrics' = calculate_business_metrics(transaction_df)
    /\ marketing_metrics' =
           calculate_marketing_metrics(AmountTable(marketing_df),
                                       calculate_business_metrics(transaction_df).total_revenue)
    /\ promotion_analysis' = calculate_promotion_analysis(transaction_df, marketing_df)
    /\ transaction_df' = WithMonthPeriod(transaction_df)
    /\ page' = "dashboard"
    /\ pc' = "done"
    /\ UNCHANGED <<marketing_df, args,
                   benchmark_status, promo_results, rendered, customer_analysis,
                   cac_analysis, cac_summary, display_cac,
                   uploaded_transaction_files, uploaded_marketing_files,
                   transaction_file_info, marketing_file_info, warnings, earlier_uploads>>

\* The transaction files of the uploader: a header with no row, dated rows, a row
\* whose date is no date and a row with an empty date; or a file pd.read_csv rejects.
AppRows ==
    <<TxRow(Cell("str_date", Days(5)), 1, "MEMBERSHIP", 1, "A", 1),
      TxRow(Cell("str_date", Days(35)), 2, "CREDIT_PACK", 2, "A", 1),
      TxRow(Cell("str_junk", 0), 1, "OTHER", 1, "A", 1),
      TxRow(NaNCell, 2, "OTHER", 2, "A", 1)>>
AppTables ==
    {TxTable(rows, TRUE, TRUE) :
        rows \in {<<>>, <<AppRows[1]>>, <<AppRows[1], AppRows[2]>>, <<AppRows[1], AppRows[3]>>,
                  <<AppRows[4]>>}}
AppFiles == {File(name, content) : name \in {"a.csv", "b.csv"}, content \in AppTables \cup {Malformed}}

\* The marketing files: daily spend with a 'Date' column, an export with reporting
\* periods (the second row's end is no date), a table with no spend column, or a
\* file pd.read_csv rejects.
AppMktFrames ==
    {Frame({"Date", "Spend"},
           <<[Date |-> Cell("str_date", Days(5)), Spend |-> Cell("num", 1)],
             [Date |-> Cell("str_date", Days(35)), Spend |-> Cell("num", 2)]>>),
     Frame({"Reporting starts", "Reporting ends", "Amount spent (GBP)", "Campaign name"},
           <<("Reporting starts" :> Cell("str_date", Days(31)))
               @@ ("Reporting ends" :> Cell("str_date", Days(40)))
               @@ ("Amount spent (GBP)" :> Cell("num", 2))
               @@ ("Campaign name" :> Str("Summer")),
             ("Reporting starts" :> Cell("str_date", Days(1)))
               @@ ("Reporting ends" :> Cell("str_junk", 0))
               @@ ("Amount spent (GBP)" :> Cell("num", 1))
               @@ ("Campaign name" :> Str("Spring"))>>),
     Frame({"Clicks"}, <<[Clicks |-> Cell("num", 1)]>>)}
AppMktFiles == {File("m.csv", content) : content \in AppMktFrames \cup {Malformed}}

InitApp ==
    /\ pc = "start"
    /\ uploaded_transaction_files \in SeqUpTo(AppFiles, MaxFiles)
    /\ uploaded_marketing_files \in SeqUpTo(AppMktFiles, MaxMktFiles)
    /\ earlier_uploads = <<>>
    /\ transaction_df = NotCalled
    /\ marketing_df = NotCalled
    /\ transaction_file_info = NotCalled
    /\ marketing_file_info = NotCalled
    /\ warnings = NotCalled
    /\ page = NotCalled
    /\ args = NotCalled
    /\ business_metrics = NotCalled
    /\ marketing_metrics = NotCalled
    /\ benchmark_status = NotCalled
    /\ promo_results = NotCalled
    /\ rendered = NotCalled
    /\ customer_analysis = NotCalled
    /\ promotion_analysis = NotCalled
    /\ cac_analysis = NotCalled
    /\ cac_summary = NotCalled
    /\ display_cac = NotCalled

NextApp ==
    \/ Welcome
    \/ LoadFiles
    \/ NoTransactionData
    \/ ParseTransactionDates
    \/ ParseTransactionDatesRaises
    \/ ComputeMetrics

SpecApp == InitApp /\ [][NextApp]_vars

\* The rows of the files that pd.read_csv accepts, in upload order, each with the
\* name of its file.
RECURSIVE RowsOfParsedFiles(_)
RowsOfParsedFiles(files) ==
    IF files = <<>> THEN <<>>
    ELSE (IF "error" \in DOMAIN Head(files).content THEN <<>>
          ELSE [i \in DOMAIN Head(files).content.rows |->
                   Head(files).content.rows[i] @@ [Source_File |-> Head(files).name]])
         \o RowsOfParsedFiles(Tail(files))

\* C13: after the transaction files are loaded, whatever files failed to parse,
\* there is one status entry per file (the batch went through to the last file),
\* the entry of every failing file has rows = 0 and a status 'Error: ...', the entry
\* of every other file has status 'Success', and the combined table holds exactly
\* the rows of the files that parsed, in order.
C13_PartialFailure ==
    pc = "loaded" =>
        /\ Len(transaction_file_info) = Len(uploaded_transaction_files)
        /\ \A i \in DOMAIN uploaded_transaction_files :
               LET file == uploaded_transaction_files[i]
                   entry == transaction_file_info[i]
               IN  /\ entry.filename = file.name
                   /\ IF "error" \in DOMAIN file.content
                      THEN entry.rows = 0 /\ entry.status = "Error: " \o file.content.error
                      ELSE entry.rows = Len(file.content.rows) /\ entry.status = "Success"
        /\ transaction_df.rows = RowsOfParsedFiles(uploaded_transaction_files)

\* A file with rows followed by a file that fails, loaded: the rows are kept.
C13_Witness ==
    /\ pc = "loaded"
    /\ Len(uploaded_transaction_files) = 2
    /\ "error" \notin DOMAIN uploaded_transaction_files[1].content
    /\ "error" \in DOMAIN uploaded_transaction_files[2].content
    /\ Len(transaction_df.rows) = 2
    /\ transaction_file_info[2].rows = 0
    /\ transaction_file_info[2].status # "Success"

\* The business metrics of a run of the script on the given transaction files.
BusinessMetricsOf(files) ==
    calculate_business_metrics(
        ParsedDates(load_and_combine_files(files, "transaction").combined_df))

\* C14: when the uploader holds two files with identical rows, total_transactions
\* and total_revenue are exactly twice what a load of one of them alone gives.
C14_DoubleLoadDoubles ==
    (/\ pc = "done" /\ page = "dashboard"
     /\ Len(uploaded_transaction_files) = 2
     /\ uploaded_transaction_files[1].content = uploaded_transaction_files[2].content) =>
        LET once == BusinessMetricsOf(<<uploaded_transaction_files[1]>>)
        IN  /\ business_metrics.total_transactions = 2 * once.total_transactions
            /\ business_metrics.total_revenue = 2 * once.total_revenue

\* The same two-row table uploaded under two names, after the metrics.
C14_Witness ==
    /\ pc = "done" /\ page = "dashboard"
    /\ Len(uploaded_transaction_files) = 2
    /\ uploaded_transaction_files[1].content = uploaded_transaction_files[2].content
    /\ uploaded_transaction_files[1].name # uploaded_transaction_files[2].name
    /\ business_metrics.total_transactions = 4
    /\ business_metrics.total_revenue = 6

\* C15: a transaction row whose date cannot be parsed never aborts the run and is
\* never in the table the metrics are computed from.
C15_UnparseableDatesDropped ==
    /\ pc # "raised"
    /\ pc \in {"dated", "done"} /\ page # "No valid transaction data found" /\ page # "welcome" =>
           \A i \in DOMAIN transaction_df.rows : transaction_df.rows[i].Date # 0

\* C16: every campaign window of promotion_analysis has campaign_name, start_date,
\* end_date and spend.
C16_WindowsCarryDates ==
    (pc = "done" /\ page = "dashboard") =>
        \A k \in DOMAIN promotion_analysis.promotion_periods :
            {"campaign_name", "start_date", "end_date", "spend"}
                \subseteq DOMAIN promotion_analysis.promotion_periods[k]

\* C18: when the transaction files give a combined table with no row, the run ends
\* on the 'No valid transaction data found' message, neither raising nor computing
\* a metric; and calculate_promotion_analysis on that table and the marketing table
\* of the run returns has_promotion_data = False with no periods.
C18_NoDataOutcome ==
    (/\ pc \in {"loaded", "dated", "raised", "done"}
     /\ uploaded_transaction_files # <<>>
     /\ RowsOfParsedFiles(uploaded_transaction_files) = <<>>) =>
        /\ pc \in {"loaded", "done"}
        /\ pc = "done" => page = "No valid transaction data found"
        /\ business_metrics = NotCalled
        /\ marketing_metrics = NotCalled
        /\ promotion_analysis = NotCalled
        /\ calculate_promotion_analysis(transaction_df, marketing_df) =
               [has_promotion_data |-> FALSE, promotion_periods |-> <<>>]

\* Every transaction file failed to parse, next to a marketing table with campaign
\* windows: the run ended on the message.
C18_Witness ==
    /\ pc = "done"
    /\ Len(uploaded_transaction_files) = 2
    /\ \A i \in DOMAIN uploaded_transaction_files :
           "error" \in DOMAIN uploaded_transaction_files[i].content
    /\ "Reporting starts" \in marketing_df.cols
    /\ page = "No valid transaction data found"
    /\ business_metrics = NotCalled

----------------------------------------------------------------------------
(* Upload events: the script runs again from the top                       *)

SessionFiles ==
    {File("a.csv", TxTable(<<AppRows[1]>>, TRUE, TRUE)),
     File("b.csv", TxTable(<<AppRows[1], AppRows[2]>>, TRUE, TRUE)),
     File("b.csv", TxTable(<<AppRows[3]>>, TRUE, TRUE)),
     File("a.csv", Malformed)}
SessionMktFiles ==
    {File("m.csv", Frame({"Date", "Spend"},
                         <<[Date |-> Cell("str_date", Days(5)), Spend |-> Cell("num", 1)]>>))}

\* A change in an uploader: Streamlit runs the script again from its first line in
\* a new namespace, so no name of the run before is bound; the file sets of the run
\* before are remembered here for the record only.
Upload ==
    /\ pc \in {"done", "raised"}
    /\ Len(earlier_uploads) < MaxEarlierRuns
    /\ earlier_uploads' =
           Append(earlier_uploads, [transactions |-> uploaded_transaction_files,
                                    marketing |-> uploaded_marketing_files])
    /\ uploaded_transaction_files' \in SeqUpTo(SessionFiles, MaxSessionFiles)
    /\ uploaded_marketing_files' \in {<<>>} \cup {<<f>> : f \in SessionMktFiles}
    /\ pc' = "start"
    /\ transaction_df' = NotCalled
    /\ marketing_df' = NotCalled
    /\ transaction_file_info' = NotCalled
    /\ marketing_file_info' = NotCalled
    /\ warnings' = NotCalled
    /\ page' = NotCalled
    /\ business_metrics' = NotCalled
    /\ marketing_metrics' = NotCalled
    /\ promotion_analysis' = NotCalled
    /\ UNCHANGED <<args, benchmark_status, promo_results, rendered, customer_analysis,
                   cac_analysis, cac_summary, display_cac>>

InitSession ==
    /\ pc = "start"
    /\ uploaded_transaction_files \in SeqUpTo(SessionFiles, MaxSessionFiles)
    /\ uploaded_marketing_files \in {<<>>} \cup {<<f>> : f \in SessionMktFiles}
    /\ earlier_uploads = <<>>
    /\ transaction_df = NotCalled
    /\ marketing_df = NotCalled
    /\ transaction_file_info = NotCalled
    /\ marketing_file_info = NotCalled
    /\ warnings = NotCalled
    /\ page = NotCalled
    /\ args = NotCalled
    /\ business_metrics = NotCalled
    /\ marketing_metrics = NotCalled
    /\ benchmark_status = NotCalled
    /\ promo_results = NotCalled
    /\ rendered = NotCalled
    /\ customer_analysis = NotCalled
    /\ promotion_analysis = NotCalled
    /\ cac_analysis = NotCalled
    /\ cac_summary = NotCalled
    /\ display_cac = NotCalled

NextSession ==
    \/ Welcome
    \/ LoadFiles
    \/ NoTransactionData
    \/ ParseTransactionDates
    \/ ParseTransactionDatesRaises
    \/ ComputeMetrics
    \/ Upload

SpecSession == InitSession /\ [][NextSession]_vars

\* What a run on the given file sets, and on nothing else, leaves at its end: the
\* page, the two tables and the three metric results.
OutcomeOf(transaction_files, marketing_files) ==
    LET t == load_and_combine_files(transaction_files, "transaction").combined_df
        m == process_marketing_data(
                 load_and_combine_files(marketing_files, "marketing").combined_df)
        dated == ParsedDates(t)
    IN  IF transaction_files = <<>>
        THEN <<"welcome", NotCalled, NotCalled, NotCalled, NotCalled, NotCalled>>
        ELSE IF Len(t.rows) = 0
        THEN <<"No valid transaction data found", t, m, NotCalled, NotCalled, NotCalled>>
        ELSE IF DatesRaise(t)
        THEN <<"exception", t, m, NotCalled, NotCalled, NotCalled>>
        ELSE <<"dashboard", WithMonthPeriod(dated), WithMonth(m),
               calculate_business_metrics(dated),
               calculate_marketing_metrics(AmountTable(WithMonth(m)),
                                           calculate_business_metrics(dated).total_revenue),
               calculate_promotion_analysis(dated, WithMonth(m))>>

\* C19: whatever was uploaded in earlier events, at the end of a run the page, the
\* tables and the metrics are those determined by the files currently in the two
\* uploaders alone; two runs with equal current file sets therefore end equal, and
\* nothing of an earlier run is left in them.
C19_DependsOnCurrentFilesOnly ==
    pc \in {"done", "raised"} =>
        <<page, transaction_df, marketing_df, business_metrics, marketing_metrics,
          promotion_analysis>>
            = OutcomeOf(uploaded_transaction_files, uploaded_marketing_files)

\* A run that showed the dashboard for one file, after an earlier run on a different
\* file set that had rows and marketing data.
C19_Witness ==
    /\ pc = "done" /\ page = "dashboard"
    /\ Len(earlier_uploads) = 1
    /\ earlier_uploads[1].transactions # uploaded_transaction_files
    /\ RowsOfParsedFiles(earlier_uploads[1].transactions) # <<>>
    /\ earlier_uploads[1].marketing # <<>>
    /\ uploaded_marketing_files = <<>>
    /\ business_metrics.total_transactions = 1
    /\ marketing_metrics.total_spend = 0

----------------------------------------------------------------------------
(* The comparison window of a campaign window with a time of day           *)

\* Day 1 is 2025-06-01, so day 31 is 2025-07-01 and day 40 is 2025-07-10.  The second
\* window ends one tick after midnight of its last day; the rows are bought in the
\* window, on 2025-06-05, and one tick after midnight of 2025-06-10.
WindowWindows == {<<Days(31), Days(40)>>, <<Days(31), Days(40) + 1>>}
WindowRows ==
    {TxRow(d, 50, "OTHER", 1, i, 1) : d \in {Days(5), Days(10) + 1, Days(35)}, i \in Items}

InitWindow ==
    /\ pc = "start"
    /\ \E rows \in SeqUpTo(WindowRows, MaxWindowRows) :
           /\ Ranked(rows)
           /\ transaction_df = TxTable(rows, TRUE, TRUE)
    /\ marketing_df = NoMkt
    /\ \E w \in WindowWindows, product \in PromoProducts :
           args = [promotion_start |-> w[1], promotion_end |-> w[2],
                   marketing_spend |-> 50, selected_product |-> product]
    /\ business_metrics = NotCalled
    /\ marketing_metrics = NotCalled
    /\ benchmark_status = NotCalled
    /\ promo_results = NotCalled
    /\ rendered = NotCalled
    /\ customer_analysis = NotCalled
    /\ promotion_analysis = NotCalled
    /\ cac_analysis = NotCalled
    /\ cac_summary = NotCalled
    /\ display_cac = NotCalled
    /\ uploaded_transaction_files = NotCalled
    /\ uploaded_marketing_files = NotCalled
    /\ transaction_file_info = NotCalled
    /\ marketing_file_info = NotCalled
    /\ warnings = NotCalled
    /\ page = NotCalled
    /\ earlier_uploads = NotCalled

NextWindow == AnalyzePromotion \/ RenderPromotion

SpecWindow == InitWindow /\ [][NextWindow]_vars

\* C20: the comparison figures of a result are those of the rows of the
\* product-filtered table dated from promotion_start - 30 days to promotion_start -
\* 30 days + (promotion_end - promotion_start), a window exactly as long as the
\* treatment window; for 2025-07-01..2025-07-10 it is 2025-06-01..2025-06-10.
C20_ComparisonWindow ==
    (pc \in {"returned", "done"} /\ DOMAIN promo_results # {}) =>
        LET comparison_start == args.promotion_start - Days(30)
            comparison_end == comparison_start + (args.promotion_end - args.promotion_start)
            comparison_data ==
                InWindow(AnalysisDf(transaction_df, args.selected_product).rows,
                         comparison_start, comparison_end)
        IN  /\ args.promotion_start = Days(31) /\ args.promotion_end = Days(40) =>
                   comparison_start = Days(1) /\ comparison_end = Days(10)
            /\ promo_results.comparison_transactions = Len(comparison_data)
            /\ promo_results.comparison_revenue = SumSeq(Column(comparison_data, "Amount"))

----------------------------------------------------------------------------
(* The treatment window of analyze_promotion_performance, rows on its ends  *)

\* Rows bought on 2025-06-05 and on 2025-07-05, for 0.30 or 0.50, with a quantity of
\* 0 or 2; the windows are 2025-06-05..2025-07-05 (30 days, a row on each end), the
\* same ending one tick before midnight of 2025-07-05 (less than 30 days),
\* 2025-07-05..2025-07-10 (a row on its start, and one on the start of its
\* comparison window) and 2025-06-06..2025-07-04 (no row inside).
TreatmentDates == {Days(5), Days(35)}
TreatmentWindows ==
    {<<Days(5), Days(35)>>, <<Days(5), Days(35) - 1>>, <<Days(35), Days(40)>>,
     <<Days(6), Days(34)>>}
TreatmentRows ==
    {TxRow(d, a, "OTHER", c, i, q) :
        d \in TreatmentDates, a \in {30, 50}, c \in PromoCustomers, i \in Items, q \in {0, 2}}

InitTreatment ==
    /\ pc = "start"
    /\ \E rows \in SeqUpTo(TreatmentRows, MaxTreatmentRows),
          hasSoldTo \in BOOLEAN, hasQty \in BOOLEAN :
           /\ Ranked(rows)
           /\ transaction_df = TxTable(rows, hasSoldTo, hasQty)
    /\ marketing_df = NoMkt
    /\ \E w \in TreatmentWindows, product \in PromoProducts :
           args = [promotion_start |-> w[1], promotion_end |-> w[2],
                   marketing_spend |-> 50, selected_product |-> product]
    /\ business_metrics = NotCalled
    /\ marketing_metrics = NotCalled
    /\ benchmark_status = NotCalled
    /\ promo_results = NotCalled
    /\ rendered = NotCalled
    /\ customer_analysis = NotCalled
    /\ promotion_analysis = NotCalled
    /\ cac_analysis = NotCalled
    /\ cac_summary = NotCalled
    /\ display_cac = NotCalled
    /\ uploaded_transaction_files = NotCalled
    /\ uploaded_marketing_files = NotCalled
    /\ transaction_file_info = NotCalled
    /\ marketing_file_info = NotCalled
    /\ warnings = NotCalled
    /\ page = NotCalled
    /\ earlier_uploads = NotCalled

SpecTreatment == InitTreatment /\ [][NextPromo]_vars

\* The rows of the table that the claims call the treatment set: dated from
\* promotion_start to promotion_end, both included, and of the selected item when
\* one is selected.
TreatmentSet ==
    LET Keep(r) ==
            /\ args.promotion_start <= r.Date /\ r.Date <= args.promotion_end
            /\ args.selected_product = "All Products" \/ r.Item = args.selected_product
    IN  SelectSeq(transaction_df.rows, Keep)

\* C21: a result of analyze_promotion_performance has promotion_transactions the
\* number of rows of the treatment set (both ends of the window included, the
\* selected item only), promotion_revenue the sum of their amounts and
\* promotion_customers the number of their distinct customers (0 for a table with
\* no 'Sold To' column); and the result is the empty dict exactly when the set is empty.
C21_TreatmentSet ==
    Returned =>
        /\ DOMAIN promo_results # {} <=> TreatmentSet # <<>>
        /\ DOMAIN promo_results # {} =>
               /\ promo_results.promotion_transactions = Len(TreatmentSet)
               /\ promo_results.promotion_revenue = SumSeq(Column(TreatmentSet, "Amount"))
               /\ promo_results.promotion_customers =
                      IF transaction_df.hasSoldTo
                      THEN Cardinality({TreatmentSet[i].SoldTo : i \in DOMAIN TreatmentSet})
                      ELSE 0

\* Item A selected, the window 2025-06-05..2025-07-05, a row of A on its last day
\* and a row of B on its first: the result counts the row of A alone.
C21_Witness ==
    /\ Returned
    /\ args.selected_product = "A"
    /\ args.promotion_start = Days(5) /\ args.promotion_end = Days(35)
    /\ Len(transaction_df.rows) = 2
    /\ transaction_df.rows[1].Date = Days(5) /\ transaction_df.rows[1].Item = "B"
    /\ transaction_df.rows[2].Date = Days(35) /\ transaction_df.rows[2].Item = "A"
    /\ transaction_df.rows[2].Amount = 30
    /\ transaction_df.hasSoldTo
    /\ promo_results.promotion_transactions = 1
    /\ promo_results.promotion_revenue = 30
    /\ promo_results.promotion_customers = 1

\* The rows of the treatment set of one item.
TreatmentRowsOf(item) == SelectSeq(TreatmentSet, LAMBDA r : r.Item = item)

\* C23: in every row of product_performance, Units_Sold is the number of the
\* item's treatment rows when the table has no quantity column and the sum of their
\* quantities when it has one, Customers is the number of distinct customers of
\* those rows, and Avg_Price is Revenue / Units_Sold with 0 units taken as 1.
C23_ProductBreakdown ==
    HasMetrics =>
        \A k \in DOMAIN promo_results.product_performance :
            LET p == promo_results.product_performance[k]
                g == TreatmentRowsOf(p.Item)
                units == IF transaction_df.hasQty THEN SumSeq(Column(g, "Qty")) ELSE Len(g)
            IN  /\ p.Units_Sold = units
                /\ transaction_df.hasSoldTo =>
                       p.Customers = Cardinality({g[i].SoldTo : i \in DOMAIN g})
                /\ p.Avg_Price = Rat(p.Revenue, IF units = 0 THEN 1 ELSE units)

\* The rows of the table handed to the function (those of the selected item).
AnalysisRows == AnalysisDf(transaction_df, args.selected_product).rows

\* C26: for a window shorter than 30 days no row of the treatment set is counted
\* in the comparison figures (the comparison rows are among the rows outside the
\* treatment set, whatever the table); for a window of 30 days or more the
\* comparison window reaches the start of the treatment window, so every row
\* dated promotion_start is counted in the promotion and in the comparison figures.
C26_SharedRows ==
    HasMetrics =>
        /\ args.promotion_end - args.promotion_start < Days(30) =>
               promo_results.comparison_transactions
                   <= Len(AnalysisRows) - Len(TreatmentSet)
        /\ args.promotion_end - args.promotion_start >= Days(30) =>
               LET OnStart(r) == r.Date = args.promotion_start
               IN  /\ promo_results.comparison_transactions
                          >= Len(SelectSeq(AnalysisRows, OnStart))
                   /\ promo_results.promotion_transactions
                          >= Len(SelectSeq(AnalysisRows, OnStart))

\* A table of one row bought on 2025-06-05 and the window 2025-06-05..2025-07-05 of
\* 30 days: the row is the promotion revenue and the comparison revenue.
C26_Witness ==
    /\ HasMetrics
    /\ args.promotion_start = Days(5) /\ args.promotion_end = Days(35)
    /\ Len(transaction_df.rows) = 1
    /\ transaction_df.rows[1].Date = Days(5)
    /\ promo_results.promotion_transactions = 1
    /\ promo_results.comparison_transactions = 1
    /\ promo_results.promotion_revenue = promo_results.comparison_revenue
    /\ promo_results.promotion_revenue > 0

\* C24: over the entries of one CAC analysis the New_Customers figures add up to
\* no more than the number of distinct customers of the transaction table: a
\* customer is counted for one window at most, also when two windows overlap or
\* two marketing rows carry the same reporting period.
C24_AcquiredOnce ==
    pc \in {"cac", "done"} =>
        SumSeq(Column(cac_analysis, "New_Customers")) <= NUnique(transaction_df.rows, "SoldTo")

\* The rows that the files before the i-th one brought into the combined table,
\* and the sum of the 'rows' fields of the 'Success' entries of a status list.
ParsedBefore(files, i) ==
    SumSeq([k \in 1..(i - 1) |->
               IF "error" \in DOMAIN files[k].content THEN 0 ELSE Len(files[k].content.rows)])
SuccessRows(file_info) ==
    SumSeq([k \in DOMAIN file_info |->
               IF file_info[k].status = "Success" THEN file_info[k].rows ELSE 0])

\* C25: after both loads, each status list has one entry per file of its uploader,
\* in upload order under the file's name; every row of each combined table carries
\* in Source_File the name of the file it was read from; and each combined table
\* has as many rows as the 'rows' fields of the 'Success' entries add up to.
C25_LoaderInvariants ==
    pc = "loaded" =>
        /\ Len(transaction_file_info) = Len(uploaded_transaction_files)
        /\ Len(marketing_file_info) = Len(uploaded_marketing_files)
        /\ \A i \in DOMAIN uploaded_transaction_files :
               LET file == uploaded_transaction_files[i]
               IN  /\ transaction_file_info[i].filename = file.name
                   /\ "error" \notin DOMAIN file.content =>
                          \A j \in DOMAIN file.content.rows :
                              transaction_df.rows[ParsedBefore(uploaded_transaction_files, i) + j]
                                  .Source_File = file.name
        /\ \A i \in DOMAIN uploaded_marketing_files :
               LET file == uploaded_marketing_files[i]
               IN  /\ marketing_file_info[i].filename = file.name
                   /\ "error" \notin DOMAIN file.content =>
                          \A j \in DOMAIN file.content.rows :
                              marketing_df.rows[ParsedBefore(uploaded_marketing_files, i) + j]
                                  ["Source_File"] = Str(file.name)
        /\ Len(transaction_df.rows) = SuccessRows(transaction_file_info)
        /\ Len(marketing_df.rows) = SuccessRows(marketing_file_info)

\* a.csv with one row before b.csv with two, and a marketing file of two rows: the
\* first row of the combined table is marked a.csv and the last one b.csv.
C25_Witness ==
    /\ pc = "loaded"
    /\ Len(uploaded_transaction_files) = 2
    /\ uploaded_transaction_files[1].name = "a.csv"
    /\ uploaded_transaction_files[2].name = "b.csv"
    /\ transaction_file_info[1].rows = 1 /\ transaction_file_info[2].rows = 2
    /\ Len(transaction_df.rows) = 3
    /\ transaction_df.rows[1].Source_File = "a.csv"
    /\ transaction_df.rows[3].Source_File = "b.csv"
    /\ Len(marketing_df.rows) = 2
    /\ marketing_df.rows[2]["Source_File"] = Str("m.csv")

\* C30: when the uploader holds two files with identical rows, unique_customers,
\* membership_pct, payg_pct and avg_transaction are what a load of one of them
\* alone gives, and revenue_per_customer is twice that of the single load.
C30_DoubleLoadRatios ==
    (/\ pc = "done" /\ page = "dashboard"
     /\ Len(uploaded_transaction_files) = 2
     /\ uploaded_transaction_files[1].content = uploaded_transaction_files[2].content) =>
        LET once == BusinessMetricsOf(<<uploaded_transaction_files[1]>>)
        IN  /\ business_metrics.unique_customers = once.unique_customers
            /\ business_metrics.membership_pct = once.membership_pct
            /\ business_metrics.payg_pct = once.payg_pct
            /\ business_metrics.avg_transaction = once.avg_transaction
            /\ business_metrics.revenue_per_customer
                   = RMul(RInt(2), once.revenue_per_customer)

\* The table of a membership at 0.01 and a credit pack at 0.02, by two customers,
\* uploaded as a.csv and as b.csv: 2 customers, a third of the revenue from
\* memberships, 0.015 a transaction and 0.03 a customer (0.015 for one file).
C30_Witness ==
    /\ pc = "done" /\ page = "dashboard"
    /\ Len(uploaded_transaction_files) = 2
    /\ uploaded_transaction_files[1].content = uploaded_transaction_files[2].content
    /\ uploaded_transaction_files[1].name # uploaded_transaction_files[2].name
    /\ business_metrics.total_transactions = 4
    /\ business_metrics.unique_customers = 2
    /\ business_metrics.membership_pct = Rat(100, 3)
    /\ business_metrics.avg_transaction = Rat(3, 2)
    /\ business_metrics.revenue_per_customer = RInt(3)

\* C28: the table after a second application of process_marketing_data is the
\* table after the first one, whatever columns the input has; and a table with no
\* row comes back as it was handed in, with no column added.
C28_Idempotent ==
    /\ pc = "twice" => marketing_df = process_marketing_data(args.marketing_df)
    /\ pc \in {"done", "twice"} /\ Len(args.marketing_df.rows) = 0 =>
           marketing_df = args.marketing_df

\* A table with a 'day' and a 'Spend' column and neither 'Date' nor 'Amount': the
\* second application reads the 'Date' and 'Amount' columns the first one made.
C28_Witness ==
    /\ pc = "twice"
    /\ Len(args.marketing_df.rows) = 1
    /\ args.marketing_df.cols = {"day", "Spend"}
    /\ args.marketing_df.rows[1]["day"] = Cell("str_date", Days(35))
    /\ args.marketing_df.rows[1]["Spend"] = Cell("str_num", 4)
    /\ marketing_df.cols = {"day", "Spend", "Date", "Amount", "Platform", "Campaign"}
    /\ marketing_df.rows[1]["Date"] = Cell("time", Days(35))
    /\ marketing_df.rows[1]["Amount"] = Cell("num", 4)
    /\ marketing_df.rows[1]["Platform"] = Str("Unknown")
    /\ marketing_df.rows[1]["Campaign"] = Str("General")

----------------------------------------------------------------------------
(* calculate_promotion_analysis on marketing tables of every shape         *)

\* The rows of a marketing export: a reporting period 2025-07-01..2025-07-10 whose
\* start may be no date and whose end may be empty, a 'Date' of 2025-06-05, of
\* 2025-07-05 or no date, a spend and a campaign name.
CampaignColumns == {"Reporting starts", "Reporting ends", "Date", "Spend", "Campaign name"}
CampaignRows ==
    {("Reporting starts" :> s) @@ ("Reporting ends" :> e) @@ ("Date" :> d)
         @@ ("Spend" :> a) @@ ("Campaign name" :> Str("Summer")) :
        s \in {Cell("str_date", Days(31)), Cell("str_junk", 0)},
        e \in {Cell("str_date", Days(40)), NaNCell},
        d \in {Cell("str_date", Days(5)), Cell("str_date", Days(35)), Cell("str_junk", 0)},
        a \in {Cell("num", 1), Cell("num", 2)}}

\* The rows of a table that has the given columns of the export.
CampaignRowsOver(cols) == {[c \in cols |-> r[c]] : r \in CampaignRows}

\* The transaction tables after lines 400-402: no row, dated rows, a row with no date.
CampaignTables == {ParsedDates(t) : t \in {u \in AppTables : ~DatesRaise(u)}}

\* The function is handed the transaction table and a marketing table over a
\* subset of the columns: the one process_marketing_data made of a loaded table,
\* or (called on its own) a table that was not processed and has neither 'Amount'
\* nor 'Date'.
InitCampaigns ==
    /\ pc = "start"
    /\ transaction_df \in CampaignTables
    /\ \E cols \in SUBSET CampaignColumns :
           \E rows \in SeqUpTo(CampaignRowsOver(cols), MaxCampaignRows) :
               \/ marketing_df = process_marketing_data(Frame(cols, rows))
               \/ "Date" \notin cols /\ marketing_df = Frame(cols, rows)
    /\ args = [transaction_df |-> transaction_df, marketing_df |-> marketing_df]
    /\ business_metrics = NotCalled
    /\ marketing_metrics = NotCalled
    /\ benchmark_status = NotCalled
    /\ promo_results = NotCalled
    /\ rendered = NotCalled
    /\ customer_analysis = NotCalled
    /\ promotion_analysis = NotCalled
    /\ cac_analysis = NotCalled
    /\ cac_summary = NotCalled
    /\ display_cac = NotCalled
    /\ uploaded_transaction_files = NotCalled
    /\ uploaded_marketing_files = NotCalled
    /\ transaction_file_info = NotCalled
    /\ marketing_file_info = NotCalled
    /\ warnings = NotCalled
    /\ page = NotCalled
    /\ earlier_uploads = NotCalled

\* Lines 251-297: the call; line 260 adds 'Month_Period' to the caller's
\* transaction table unless the function returned at line 253.
CalculatePromotionAnalysis ==
    /\ pc = "start"
    /\ promotion_analysis' = calculate_promotion_analysis(transaction_df, marketing_df)
    /\ transaction_df' =
           IF Len(transaction_df.rows) = 0 THEN transaction_df
           ELSE WithMonthPeriod(transaction_df)
    /\ pc' = "done"
    /\ UNCHANGED <<marketing_df, args, business_metrics, marketing_metrics,
                   benchmark_status, promo_results, rendered, customer_analysis,
                   cac_analysis, cac_summary, display_cac,
                   uploaded_transaction_files, uploaded_marketing_files,
                   transaction_file_info, marketing_file_info, warnings, page,
                   earlier_uploads>>

NextCampaigns == CalculatePromotionAnalysis

SpecCampaigns == InitCampaigns /\ [][NextCampaigns]_vars

\* The rows of the marketing table whose reporting dates both read as dates, and
\* the calendar months of the rows that have a date.
ReportedRows ==
    IF {"Reporting starts", "Reporting ends"} \subseteq args.marketing_df.cols
    THEN SelectSeq(args.marketing_df.rows,
                   LAMBDA r : /\ r["Reporting starts"].kind \in {"str_date", "time"}
                              /\ r["Reporting ends"].kind \in {"str_date", "time"})
    ELSE <<>>
CalendarMonths ==
    {MonthOf(args.marketing_df.rows[i]["Date"].v) :
        i \in {j \in DOMAIN args.marketing_df.rows :
                  args.marketing_df.rows[j]["Date"].kind = "time"}}
SpendOfMonth(month) ==
    SumSeq([i \in DOMAIN args.marketing_df.rows |->
               IF /\ args.marketing_df.rows[i]["Date"].kind = "time"
                  /\ MonthOf(args.marketing_df.rows[i]["Date"].v) = month
               THEN CellNumber(args.marketing_df.rows[i]["Amount"]) ELSE 0])

\* C22: for a transaction table with rows and a marketing table with rows and an
\* 'Amount' column, the windows are one per row whose 'Reporting starts' and
\* 'Reporting ends' both read as dates, in row order, with those dates, the row's
\* amount and the row's campaign name; when there is no such row and the table
\* has a 'Date' column they are one per distinct calendar month of the rows, each
\* with the sum of the month's amounts; and otherwise there is none.
C22_ExplicitThenMonths ==
    (/\ pc = "done"
     /\ Len(args.transaction_df.rows) > 0
     /\ Len(args.marketing_df.rows) > 0
     /\ "Amount" \in args.marketing_df.cols) =>
        LET periods == promotion_analysis.promotion_periods
        IN  IF ReportedRows # <<>>
            THEN /\ Len(periods) = Len(ReportedRows)
                 /\ \A k \in DOMAIN periods :
                        /\ IsExplicit(periods[k])
                        /\ periods[k].start_date = ReportedRows[k]["Reporting starts"].v
                        /\ periods[k].end_date = ReportedRows[k]["Reporting ends"].v
                        /\ periods[k].spend = ReportedRows[k]["Amount"].v
                        /\ "Campaign name" \in args.marketing_df.cols =>
                               periods[k].campaign_name
                                   = ReportedRows[k]["Campaign name"].s
            ELSE IF "Date" \in args.marketing_df.cols
            THEN /\ Len(periods) = Cardinality(CalendarMonths)
                 /\ \A k \in DOMAIN periods :
                        /\ "period" \in DOMAIN periods[k]
                        /\ periods[k].period \in CalendarMonths
                        /\ periods[k].spend = SpendOfMonth(periods[k].period)
                 /\ \A k, l \in DOMAIN periods : k # l => periods[k].period # periods[l].period
            ELSE periods = <<>>

\* C27: the windows of a result are all taken from reporting periods (start_date
\* and end_date, no period) or all made up for months (period, no start_date and
\* no end_date); has_promotion_data says whether there is a window; and there is
\* one only for a transaction table with rows and a marketing table with rows and
\* an 'Amount' column.
C27_NeverMixed ==
    pc = "done" =>
        LET periods == promotion_analysis.promotion_periods
        IN  /\ \/ \A k \in DOMAIN periods :
                      IsExplicit(periods[k]) /\ "period" \notin DOMAIN periods[k]
               \/ \A k \in DOMAIN periods :
                      /\ "period" \in DOMAIN periods[k]
                      /\ "start_date" \notin DOMAIN periods[k]
                      /\ "end_date" \notin DOMAIN periods[k]
            /\ promotion_analysis.has_promotion_data <=> Len(periods) > 0
            /\ Len(periods) > 0 =>
                   /\ Len(args.transaction_df.rows) > 0
                   /\ Len(args.marketing_df.rows) > 0
                   /\ "Amount" \in args.marketing_df.cols

\* A marketing table with reporting periods and a 'Date' column, its first row
\* with a period and its second without: one window, taken from the first row.
C27_Witness ==
    /\ pc = "done"
    /\ {"Reporting starts", "Reporting ends", "Date", "Amount"} \subseteq args.marketing_df.cols
    /\ Len(args.marketing_df.rows) = 2
    /\ args.marketing_df.rows[1]["Date"].kind = "time"
    /\ args.marketing_df.rows[2]["Reporting ends"].kind = "nan"
    /\ promotion_analysis.has_promotion_data
    /\ Len(promotion_analysis.promotion_periods) = 1
    /\ IsExplicit(promotion_analysis.promotion_periods[1])

----------------------------------------------------------------------------
(* The run of the script up to the analysis of a selected campaign          *)

\* Lines 891-929: a campaign window and a product are selected; for a window with
\* dates the table, restricted to the product, goes to analyze_promotion_performance.
\* (The tables of this scenario have the 'Sold To' column, so the group-by does
\* not raise, and their windows start after day 30, so that no undated row, whose
\* date 0 stands for NaT, compares inside a window.)
AnalyzeSelectedPromotion ==
    /\ pc = "done"
    /\ page = "dashboard"
    /\ \E selected_promotion \in DOMAIN promotion_analysis.promotion_periods,
          selected_product \in PromoProducts :
           LET promo_period == promotion_analysis.promotion_periods[selected_promotion]
               analysis_df == AnalysisDf(transaction_df, selected_product)
           IN  /\ IsExplicit(promo_period)
               /\ args' = [promotion_start |-> promo_period.start_date,
                           promotion_end |-> promo_period.end_date,
                           marketing_spend |-> promo_period.spend,
                           selected_product |-> selected_product]
               /\ \E pp \in ProductPerformances(
                                InWindow(analysis_df.rows, promo_period.start_date,
                                         promo_period.end_date),
                                analysis_df.hasQty) :
                      LET \* a spend of NaN fails `marketing_spend > 0` as 0 does
                          spend == IF ToString(promo_period.spend) = ToString(NaN)
                                   THEN 0 ELSE promo_period.spend
                          results == analyze_promotion_performance(
                                         analysis_df, promo_period.start_date,
                                         promo_period.end_date, spend, pp)
                      IN  promo_results' =
                              IF DOMAIN results = {} THEN results
                              ELSE [results EXCEPT !.marketing_spend = promo_period.spend]
    /\ pc' = "analyzed"
    /\ UNCHANGED <<transaction_df, marketing_df, business_metrics, marketing_metrics,
                   benchmark_status, rendered, customer_analysis,
                   promotion_analysis, cac_analysis, cac_summary, display_cac,
                   uploaded_transaction_files, uploaded_marketing_files,
                   transaction_file_info, marketing_file_info, warnings, page,
                   earlier_uploads>>

NextFrame == NextApp \/ AnalyzeSelectedPromotion

SpecFrame == InitApp /\ [][NextFrame]_vars

\* C29: the step of the three metric calls (calculate_business_metrics,
\* calculate_marketing_metrics, calculate_promotion_analysis) leaves the marketing
\* table as it was and every row and column of the transaction table as it was,
\* adding the column Month_Period only; the step that calls
\* analyze_promotion_performance leaves both tables as they were.
C29_FrameEffects ==
    [][/\ (pc = "dated" /\ pc' = "done") =>
              /\ marketing_df' = marketing_df
              /\ transaction_df'.hasSoldTo = transaction_df.hasSoldTo
              /\ transaction_df'.hasQty = transaction_df.hasQty
              /\ Len(transaction_df'.rows) = Len(transaction_df.rows)
              /\ \A i \in DOMAIN transaction_df.rows :
                     /\ DOMAIN transaction_df'.rows[i]
                            = DOMAIN transaction_df.rows[i] \cup {"Month_Period"}
                     /\ \A c \in DOMAIN transaction_df.rows[i] :
                            transaction_df'.rows[i][c] = transaction_df.rows[i][c]
       /\ (pc = "done" /\ pc' = "analyzed") =>
              /\ marketing_df' = marketing_df
              /\ transaction_df' = transaction_df]_vars

\* A run that computed the metrics of a table with a row of 2025-07-05 and
\* analysed the window 2025-07-01..2025-07-10 on it: the table has the column
\* Month_Period, and the analysis found the row.
C29_Witness ==
    /\ pc = "analyzed"
    /\ Len(marketing_df.rows) > 0
    /\ Len(transaction_df.rows) = 2
    /\ transaction_df.rows[2].Date = Days(35)
    /\ transaction_df.rows[2].Month_Period = 202507
    /\ business_metrics.total_transactions = 2
    /\ marketing_metrics.total_spend > 0
    /\ DOMAIN promo_results # {}
    /\ promo_results.promotion_transactions = 1

====
